---- MODULE Spec2Model ----
(***************************************************************************)
(* cargo-x402: manifest validation (schema/validator.rs,                   *)
(* schema/template.rs), template rendering (template/render.rs) and the    *)
(* create command (commands/create.rs) as state machines.                  *)
(*                                                                         *)
(* Strings are TLA+ strings; a character is a string of length one.        *)
(* String::len() is the length of the string (the model's alphabet is      *)
(* ASCII, one byte per character).                                         *)
(***************************************************************************)
EXTENDS Integers, Sequences, FiniteSets, TLC

VARIABLES
    manifest,   \* the x402.toml file handed to Validator::load_and_validate
    results,    \* the results of the load_and_validate calls made on it so far
    tree,       \* the source tree under template_path: relative path -> node
    values,     \* the parameters map handed to Renderer::render
    fault,      \* the source entry whose copy, write or create_dir_all fails, if any
    unlisted,   \* the source directory whose entries WalkDir fails to read, if any
    dest,       \* the file system under output_path: relative path -> node
    stack,      \* WalkDir: per open directory, the entries not yet yielded
    entry,      \* the entry the loop of render is at
    parsedFiles, \* the source files whose content was given to the Liquid engine
    rstate,     \* where render is: "idle", "ready", "walking", "done"
    rresult,    \* what render returned
    selected,   \* create: the template resolved in step 1
    project_name, \* create: the project name of step 2
    validated,  \* create: the schema load_and_validate returned
    pending,    \* prompt_for_parameters: the parameters not yet prompted for
    custom,     \* prompt_for_parameters: the values collected so far
    cancelled,  \* prompt_for_parameters: the value source cancelled at a prompt
    git,        \* initialize_git: the git commands run, with their exit status
    steps,      \* create: the steps taken so far
    cstate,     \* where create is
    cresult,    \* what create returned
    subject,    \* the Parameter that Parameter::validate is called on
    calls,      \* the values it was called with so far, and the results
    cacheFile,  \* templates.json in the cache directory, if it exists
    now,        \* what Utc::now() returns, in half hours
    runs,       \* how many commands have used the cache so far
    lastRun     \* the last of these commands: what it did and returned

vvars == <<manifest, results>>
rvars == <<tree, values, fault, unlisted, dest, stack, entry, parsedFiles, rstate, rresult>>
cvars == <<selected, project_name, validated, pending, custom, cancelled, git, steps, cstate, cresult>>
pvars == <<subject, calls>>
lvars == <<cacheFile, now, runs, lastRun>>
vars == <<vvars, rvars, cvars, pvars, lvars>>

(***************************************************************************)
(* Bounds of the model.                                                    *)
(***************************************************************************)
\* in how many places the manifest under validation differs from BaseFile
MaxEdits == 2
\* how many times load_and_validate is called on the same manifest
MaxCalls == 2
\* how many groups of entries the source tree holds besides x402.toml
MaxGroups == 2
\* how many commands use the cache one after another
MaxRuns == 2
\* how far the clock runs, in half hours
MaxTime == 4

(***************************************************************************)
(* Strings.                                                                *)
(***************************************************************************)
Char(s, i) == SubSeq(s, i, i)

StartsWith(s, prefix) ==
    /\ Len(s) >= Len(prefix)
    /\ SubSeq(s, 1, Len(prefix)) = prefix

\* index of the first occurrence of character c in s at or after i, 0 if none
RECURSIVE IndexFrom(_, _, _)
IndexFrom(s, c, i) ==
    IF i > Len(s) THEN 0
    ELSE IF Char(s, i) = c THEN i
    ELSE IndexFrom(s, c, i + 1)

\* index of the last occurrence of character c in s at or before i, 0 if none
RECURSIVE LastIndexFrom(_, _, _)
LastIndexFrom(s, c, i) ==
    IF i < 1 THEN 0
    ELSE IF Char(s, i) = c THEN i
    ELSE LastIndexFrom(s, c, i - 1)

\* s.split(c): the pieces of s between the occurrences of c
RECURSIVE Split(_, _)
Split(s, c) ==
    LET k == IndexFrom(s, c, 1) IN
    IF k = 0 THEN <<s>>
    ELSE <<SubSeq(s, 1, k - 1)>> \o Split(SubSeq(s, k + 1, Len(s)), c)

RECURSIVE Rep(_, _)
Rep(c, n) ==
    IF n = 0 THEN ""
    ELSE IF n % 2 = 0 THEN LET h == Rep(c, n \div 2) IN h \o h
    ELSE c \o Rep(c, n - 1)

\* the characters of the model in ASCII order
Ascii == "-.0123456789ABCDEFGHIJKLMNOPQRSTUVWXYZ_abcdefghijklmnopqrstuvwxyz"
Code(c) == IndexFrom(Ascii, c, 1)

Digits == {Char("0123456789", i) : i \in 1..10}
Lowers == {Char("abcdefghijklmnopqrstuvwxyz", i) : i \in 1..26}
Uppers == {Char("ABCDEFGHIJKLMNOPQRSTUVWXYZ", i) : i \in 1..26}

AllIn(s, set) == \A i \in 1..Len(s) : Char(s, i) \in set

\* str::to_lowercase
RECURSIVE ToLowercase(_)
ToLowercase(s) ==
    IF s = "" THEN ""
    ELSE LET c == Char(s, 1)
             k == IndexFrom("ABCDEFGHIJKLMNOPQRSTUVWXYZ", c, 1)
             l == IF k = 0 THEN c ELSE Char("abcdefghijklmnopqrstuvwxyz", k)
         IN l \o ToLowercase(SubSeq(s, 2, Len(s)))

SeqContains(seq, x) == \E i \in 1..Len(seq) : seq[i] = x

\* the orders in which the keys of a hash map may be iterated
Orders(S) ==
    {o \in [1..Cardinality(S) -> S] : \A x \in S : \E i \in DOMAIN o : o[i] = x}

(***************************************************************************)
(* semver::Version::parse: MAJOR.MINOR.PATCH[-pre][+build].                *)
(***************************************************************************)
NumericIdent(s) ==
    /\ s # ""
    /\ AllIn(s, Digits)
    /\ (Len(s) > 1 => Char(s, 1) # "0")

IdentChars == Digits \cup Lowers \cup Uppers \cup {"-"}

PreIdent(s) ==
    /\ s # ""
    /\ AllIn(s, IdentChars)
    /\ (AllIn(s, Digits) => NumericIdent(s))

BuildIdent(s) == s # "" /\ AllIn(s, IdentChars)

VersionParse(s) ==
    LET plus  == IndexFrom(s, "+", 1)
        front == IF plus = 0 THEN s ELSE SubSeq(s, 1, plus - 1)
        build == IF plus = 0 THEN "" ELSE SubSeq(s, plus + 1, Len(s))
        dash  == IndexFrom(front, "-", 1)
        core  == IF dash = 0 THEN front ELSE SubSeq(front, 1, dash - 1)
        pre   == IF dash = 0 THEN "" ELSE SubSeq(front, dash + 1, Len(front))
        nums  == Split(core, ".")
        pres  == Split(pre, ".")
        blds  == Split(build, ".")
    IN  /\ Len(nums) = 3
        /\ \A i \in 1..3 : NumericIdent(nums[i])
        /\ (dash # 0 => \A i \in 1..Len(pres) : PreIdent(pres[i]))
        /\ (plus # 0 => \A i \in 1..Len(blds) : BuildIdent(blds[i]))

(***************************************************************************)
(* regex::Regex::new and Regex::is_match, for the patterns of the form     *)
(* [^] item* [$], where an item is a character, '.' or a class [...] of    *)
(* characters and ranges, optionally followed by '*' or '+'.  is_match     *)
(* searches anywhere in the value unless the pattern anchors itself.       *)
(***************************************************************************)
AsciiChars == {Char(Ascii, i) : i \in 1..Len(Ascii)}

RECURSIVE ClassSet(_)
ClassSet(body) ==
    IF body = "" THEN {}
    ELSE IF Len(body) >= 3 /\ Char(body, 2) = "-"
    THEN {Char(Ascii, j) : j \in Code(Char(body, 1))..Code(Char(body, 3))}
         \cup ClassSet(SubSeq(body, 4, Len(body)))
    ELSE {Char(body, 1)} \cup ClassSet(SubSeq(body, 2, Len(body)))

RegexError == [ok |-> FALSE, items |-> <<>>]

\* the items of pattern p from position i on
RECURSIVE ParseItems(_, _)
ParseItems(p, i) ==
    IF i > Len(p) THEN [ok |-> TRUE, items |-> <<>>]
    ELSE
    LET c     == Char(p, i)
        close == IF c = "[" THEN IndexFrom(p, "]", i + 1) ELSE i
        bad   == \/ c \in {"*", "+", "?", "(", ")", "]", "{", "}", "|", "\\"}
                 \/ (c = "[" /\ close <= i + 1)
        set   == IF c = "[" THEN ClassSet(SubSeq(p, i + 1, close - 1))
                 ELSE IF c = "." THEN AsciiChars
                 ELSE {c}
        q     == IF close < Len(p) /\ Char(p, close + 1) \in {"*", "+"}
                 THEN Char(p, close + 1) ELSE "1"
        next  == IF q = "1" THEN close + 1 ELSE close + 2
        rest  == ParseItems(p, next)
    IN  IF bad \/ ~rest.ok THEN RegexError
        ELSE [ok |-> TRUE, items |-> <<[set |-> set, q |-> q]>> \o rest.items]

\* Regex::new(p)
RegexNew(p) ==
    LET astart == p # "" /\ Char(p, 1) = "^"
        p1     == IF astart THEN SubSeq(p, 2, Len(p)) ELSE p
        aend   == p1 # "" /\ Char(p1, Len(p1)) = "$"
        p2     == IF aend THEN SubSeq(p1, 1, Len(p1) - 1) ELSE p1
        parsed == ParseItems(p2, 1)
    IN  [ok |-> parsed.ok, astart |-> astart, aend |-> aend, items |-> parsed.items]

RECURSIVE Ends(_, _, _, _)
RECURSIVE Star(_, _, _, _)
\* the positions at which a match of items[k..] that starts at position i of s may end
Ends(items, k, s, i) ==
    IF k > Len(items) THEN {i}
    ELSE LET hit == i <= Len(s) /\ Char(s, i) \in items[k].set IN
         IF items[k].q = "*" THEN Star(items, k, s, i)
         ELSE IF ~hit THEN {}
         ELSE IF items[k].q = "+" THEN Star(items, k, s, i + 1)
         ELSE Ends(items, k + 1, s, i + 1)

Star(items, k, s, i) ==
    Ends(items, k + 1, s, i)
    \cup (IF i <= Len(s) /\ Char(s, i) \in items[k].set
          THEN Star(items, k, s, i + 1) ELSE {})

\* regex.is_match(value)
IsMatch(regex, value) ==
    \E st \in 1..(Len(value) + 1) :
        /\ (regex.astart => st = 1)
        /\ \E en \in Ends(regex.items, 1, value, st) :
               regex.aend => en = Len(value) + 1

(***************************************************************************)
(* Option<T> and Result<(), String>.                                       *)
(***************************************************************************)
None == [some |-> FALSE]
Some(v) == [some |-> TRUE, v |-> v]

OkUnit == [ok |-> TRUE]
ErrMsg(e) == [ok |-> FALSE, err |-> e]

RECURSIVE Join(_, _)
Join(seq, sep) ==
    IF Len(seq) = 0 THEN ""
    ELSE IF Len(seq) = 1 THEN seq[1]
    ELSE seq[1] \o sep \o Join(Tail(seq), sep)

(***************************************************************************)
(* schema/template.rs: Parameter, a tagged variant                         *)
(*   String  {default, pattern}                                            *)
(*   Boolean {default}                                                     *)
(*   Enum    {choices, default}                                            *)
(***************************************************************************)
StringParam(default, pattern) ==
    [type |-> "string", default |-> default, pattern |-> pattern]
BooleanParam(default) ==
    [type |-> "boolean", default |-> default]
EnumParam(choices, default) ==
    [type |-> "enum", choices |-> choices, default |-> default]

BooleanTokens == {"true", "false", "yes", "no", "1", "0"}

\* a validate whose Boolean arm compares the value as it is written
ParameterValidateExact(param, value) ==
    CASE param.type = "boolean" ->
           IF value \notin BooleanTokens
           THEN ErrMsg("Expected boolean value, got '" \o value \o "'")
           ELSE OkUnit
      [] OTHER -> OkUnit

\* a validate whose Enum arm compares the value without regard to case
ParameterValidateFolded(param, value) ==
    CASE param.type = "enum" ->
           IF \E i \in 1..Len(param.choices) :
                  ToLowercase(param.choices[i]) = ToLowercase(value)
           THEN OkUnit
           ELSE ErrMsg("Value '" \o value \o "' not in allowed options: "
                       \o Join(param.choices, ", "))
      [] OTHER -> OkUnit

\* Parameter::validate(&self, value)
ParameterValidate(param, value) ==
    CASE param.type = "string" ->
           IF param.pattern.some
           THEN LET regex == RegexNew(param.pattern.v) IN
                IF ~regex.ok
                THEN ErrMsg("Invalid pattern: " \o param.pattern.v)
                ELSE IF ~IsMatch(regex, value)
                THEN ErrMsg("Value '" \o value \o "' does not match pattern '"
                            \o param.pattern.v \o "'")
                ELSE OkUnit
           ELSE OkUnit
      [] param.type = "boolean" ->
           IF ToLowercase(value) \notin BooleanTokens
           THEN ErrMsg("Expected boolean value, got '" \o value \o "'")
           ELSE OkUnit
      [] param.type = "enum" ->
           IF ~SeqContains(param.choices, value)
           THEN ErrMsg("Value '" \o value \o "' not in allowed options: "
                       \o Join(param.choices, ", "))
           ELSE OkUnit

(***************************************************************************)
(* schema/validator.rs                                                     *)
(***************************************************************************)
Ok == [kind |-> "Ok"]
ValidationError(field, message) ==
    [kind |-> "ValidationError", field |-> field, message |-> message]
FileSystemError(message) == [kind |-> "FileSystemError", message |-> message]
TomlError(message) == [kind |-> "TomlError", message |-> message]

NameMaxLen == 100
DescriptionMinLen == 10
DescriptionMaxLen == 200
GitHubPrefix == "https://github.com/"

\* validate_parameter without the check of a String default against its pattern
validate_parameter_pattern_only(name, param) ==
    CASE param.type = "string" ->
           IF param.pattern.some /\ ~RegexNew(param.pattern.v).ok
           THEN ValidationError("parameters." \o name \o ".pattern",
                                "Invalid regex: " \o param.pattern.v)
           ELSE Ok
      [] param.type = "enum" ->
           IF Len(param.choices) = 0
           THEN ValidationError("parameters." \o name \o ".enum",
                                "Enum must have at least one choice")
           ELSE IF ~SeqContains(param.choices, param.default)
           THEN ValidationError("parameters." \o name \o ".default",
                                "Default value '" \o param.default
                                \o "' not in enum choices")
           ELSE Ok
      [] param.type = "boolean" -> Ok

\* validate_parameter without the check of an Enum default against its choices
validate_parameter_choices_only(name, param) ==
    CASE param.type = "string" ->
           IF param.pattern.some /\ ~RegexNew(param.pattern.v).ok
           THEN ValidationError("parameters." \o name \o ".pattern",
                                "Invalid regex: " \o param.pattern.v)
           ELSE IF param.pattern.some /\ ~ParameterValidate(param, param.default).ok
           THEN ValidationError("parameters." \o name \o ".default",
                                ParameterValidate(param, param.default).err)
           ELSE Ok
      [] param.type = "enum" ->
           IF Len(param.choices) = 0
           THEN ValidationError("parameters." \o name \o ".enum",
                                "Enum must have at least one choice")
           ELSE Ok
      [] param.type = "boolean" -> Ok

\* Validator::validate_parameter(name, param)
validate_parameter(name, param) ==
    CASE param.type = "string" ->
           IF param.pattern.some /\ ~RegexNew(param.pattern.v).ok
           THEN ValidationError("parameters." \o name \o ".pattern",
                                "Invalid regex: " \o param.pattern.v)
           ELSE IF param.pattern.some /\ ~ParameterValidate(param, param.default).ok
           THEN ValidationError("parameters." \o name \o ".default",
                                ParameterValidate(param, param.default).err)
           ELSE Ok
      [] param.type = "enum" ->
           IF Len(param.choices) = 0
           THEN ValidationError("parameters." \o name \o ".enum",
                                "Enum must have at least one choice")
           ELSE IF ~SeqContains(param.choices, param.default)
           THEN ValidationError("parameters." \o name \o ".default",
                                "Default value '" \o param.default
                                \o "' not in enum choices")
           ELSE Ok
      [] param.type = "boolean" -> Ok

\* validate_glob_pattern accepting the empty pattern
validate_glob_pattern_any(pattern, context) == Ok

\* Validator::validate_glob_pattern(pattern, context)
validate_glob_pattern(pattern, context) ==
    IF pattern = ""
    THEN ValidationError("files." \o context, "Glob pattern cannot be empty")
    ELSE Ok

\* the first error among results[i..], Ok if there is none: a loop whose body
\* ends in `?`
RECURSIVE FirstError(_, _)
FirstError(rs, i) ==
    IF i > Len(rs) THEN Ok
    ELSE IF rs[i].kind # "Ok" THEN rs[i]
    ELSE FirstError(rs, i + 1)

\* `for (name, param) in params`, the map iterated in the order `order`
validate_parameters(params, order) ==
    FirstError([i \in 1..Len(order) |-> validate_parameter(order[i], params[order[i]])], 1)

validate_patterns(patterns, context) ==
    FirstError([i \in 1..Len(patterns) |-> validate_glob_pattern(patterns[i], context)], 1)

validate_schema_description_exclusive(schema, order) ==
    LET meta == schema.template IN
    IF meta.name = ""
    THEN ValidationError("template.name", "Template name is required")
    ELSE IF Len(meta.name) > NameMaxLen
    THEN ValidationError("template.name", "Template name must be 100 characters or less")
    ELSE IF meta.description = ""
    THEN ValidationError("template.description", "Template description is required")
    ELSE IF Len(meta.description) <= DescriptionMinLen
            \/ Len(meta.description) >= DescriptionMaxLen
    THEN ValidationError("template.description", "Description must be 10-200 characters")
    ELSE IF ~VersionParse(meta.version)
    THEN ValidationError("template.version", "Invalid semantic version: " \o meta.version)
    ELSE IF Len(meta.authors) = 0
    THEN ValidationError("template.authors", "At least one author is required")
    ELSE IF ~StartsWith(meta.repository, GitHubPrefix)
    THEN ValidationError("template.repository",
             "Repository must be an HTTPS GitHub URL (https://github.com/...)")
    ELSE IF meta.min_rust_version.some /\ ~VersionParse(meta.min_rust_version.v)
    THEN ValidationError("template.min_rust_version",
             "Invalid semantic version: " \o meta.min_rust_version.v)
    ELSE IF meta.min_x402_cli_version.some /\ ~VersionParse(meta.min_x402_cli_version.v)
    THEN ValidationError("template.min_x402_cli_version",
             "Invalid semantic version: " \o meta.min_x402_cli_version.v)
    ELSE IF schema.parameters.some
            /\ validate_parameters(schema.parameters.v, order).kind # "Ok"
    THEN validate_parameters(schema.parameters.v, order)
    ELSE IF schema.files.some
            /\ validate_patterns(schema.files.v.include, "include").kind # "Ok"
    THEN validate_patterns(schema.files.v.include, "include")
    ELSE IF schema.files.some
    THEN validate_patterns(schema.files.v.exclude, "exclude")
    ELSE Ok

validate_schema_repository_first(schema, order) ==
    LET meta == schema.template IN
    IF ~StartsWith(meta.repository, GitHubPrefix)
    THEN ValidationError("template.repository",
             "Repository must be an HTTPS GitHub URL (https://github.com/...)")
    ELSE IF meta.name = ""
    THEN ValidationError("template.name", "Template name is required")
    ELSE IF Len(meta.name) > NameMaxLen
    THEN ValidationError("template.name", "Template name must be 100 characters or less")
    ELSE IF meta.description = ""
    THEN ValidationError("template.description", "Template description is required")
    ELSE IF Len(meta.description) < DescriptionMinLen
            \/ Len(meta.description) > DescriptionMaxLen
    THEN ValidationError("template.description", "Description must be 10-200 characters")
    ELSE IF ~VersionParse(meta.version)
    THEN ValidationError("template.version", "Invalid semantic version: " \o meta.version)
    ELSE IF Len(meta.authors) = 0
    THEN ValidationError("template.authors", "At least one author is required")
    ELSE IF meta.min_rust_version.some /\ ~VersionParse(meta.min_rust_version.v)
    THEN ValidationError("template.min_rust_version",
             "Invalid semantic version: " \o meta.min_rust_version.v)
    ELSE IF meta.min_x402_cli_version.some /\ ~VersionParse(meta.min_x402_cli_version.v)
    THEN ValidationError("template.min_x402_cli_version",
             "Invalid semantic version: " \o meta.min_x402_cli_version.v)
    ELSE IF schema.parameters.some
            /\ validate_parameters(schema.parameters.v, order).kind # "Ok"
    THEN validate_parameters(schema.parameters.v, order)
    ELSE IF schema.files.some
            /\ validate_patterns(schema.files.v.include, "include").kind # "Ok"
    THEN validate_patterns(schema.files.v.include, "include")
    ELSE IF schema.files.some
    THEN validate_patterns(schema.files.v.exclude, "exclude")
    ELSE Ok

\* Validator::validate_schema(schema); order is the iteration order of the
\* parameters hash map
validate_schema(schema, order) ==
    LET meta == schema.template IN
    IF meta.name = ""
    THEN ValidationError("template.name", "Template name is required")
    ELSE IF Len(meta.name) > NameMaxLen
    THEN ValidationError("template.name", "Template name must be 100 characters or less")
    ELSE IF meta.description = ""
    THEN ValidationError("template.description", "Template description is required")
    ELSE IF Len(meta.description) < DescriptionMinLen
            \/ Len(meta.description) > DescriptionMaxLen
    THEN ValidationError("template.description", "Description must be 10-200 characters")
    ELSE IF ~VersionParse(meta.version)
    THEN ValidationError("template.version", "Invalid semantic version: " \o meta.version)
    ELSE IF Len(meta.authors) = 0
    THEN ValidationError("template.authors", "At least one author is required")
    ELSE IF ~StartsWith(meta.repository, GitHubPrefix)
    THEN ValidationError("template.repository",
             "Repository must be an HTTPS GitHub URL (https://github.com/...)")
    ELSE IF meta.min_rust_version.some /\ ~VersionParse(meta.min_rust_version.v)
    THEN ValidationError("template.min_rust_version",
             "Invalid semantic version: " \o meta.min_rust_version.v)
    ELSE IF meta.min_x402_cli_version.some /\ ~VersionParse(meta.min_x402_cli_version.v)
    THEN ValidationError("template.min_x402_cli_version",
             "Invalid semantic version: " \o meta.min_x402_cli_version.v)
    ELSE IF schema.parameters.some
            /\ validate_parameters(schema.parameters.v, order).kind # "Ok"
    THEN validate_parameters(schema.parameters.v, order)
    ELSE IF schema.files.some
            /\ validate_patterns(schema.files.v.include, "include").kind # "Ok"
    THEN validate_patterns(schema.files.v.include, "include")
    ELSE IF schema.files.some
    THEN validate_patterns(schema.files.v.exclude, "exclude")
    ELSE Ok

(***************************************************************************)
(* The manifest file.  `readable` says whether read_to_string succeeds,    *)
(* `syntax_ok` whether the content is TOML, `missing` names the required   *)
(* keys the content lacks (serde rejects it), and `schema` is what the     *)
(* content deserializes to otherwise.                                      *)
(***************************************************************************)
EmptyMap == [n \in {} |-> None]

\* the map m with key k set to v: HashMap::insert
Insert(m, k, v) == [x \in DOMAIN m \cup {k} |-> IF x = k THEN v ELSE m[x]]

BaseSchema ==
    [template |->
        [name |-> "basic-api",
         description |-> "A basic x402 API server",
         version |-> "0.1.0",
         authors |-> <<"alice">>,
         repository |-> "https://github.com/x402/basic-api",
         tags |-> <<>>,
         min_rust_version |-> None,
         min_x402_cli_version |-> None],
     parameters |-> None,
     files |-> None]

BaseFile ==
    [readable |-> TRUE, syntax_ok |-> TRUE, missing |-> {}, schema |-> BaseSchema]

\* the values the places of a manifest are drawn from
NameValues == <<"", Rep("n", NameMaxLen), Rep("n", NameMaxLen + 1)>>
DescriptionValues ==
    <<"", Rep("d", DescriptionMinLen - 1), Rep("d", DescriptionMinLen),
      Rep("d", DescriptionMaxLen), Rep("d", DescriptionMaxLen + 1)>>
VersionValues == <<"1.0", "1.0.0-alpha">>
RepositoryValues == <<"http://github.com/x402/basic-api">>
MinVersionValues == <<Some("1.70.0"), Some("1.70")>>
PatternLists == <<<<"src/**">>, <<"">>, <<"*.rs", "">>>>
RequiredKeys == <<"template.authors", "template.version">>
ParameterValues ==
    << <<"project_name", StringParam("my-app", None)>>,
       <<"project_name", StringParam("my-app", Some("^[a-z][a-z0-9-]*$"))>>,
       <<"project_name", StringParam("My-App", Some("^[a-z][a-z0-9-]*$"))>>,
       <<"project_name", StringParam("My-App", Some("[a-z]+"))>>,
       <<"project_name", StringParam("123", Some("[a-z]+"))>>,
       <<"project_name", StringParam("my-app", Some("["))>>,
       <<"db", EnumParam(<<"postgres", "sqlite">>, "postgres")>>,
       <<"db", EnumParam(<<"postgres", "sqlite">>, "sqlite")>>,
       <<"db", EnumParam(<<"postgres", "sqlite">>, "mysql")>>,
       <<"db", EnumParam(<<"postgres", "sqlite">>, "Postgres")>>,
       <<"db", EnumParam(<<>>, "postgres")>>,
       <<"db", StringParam("80a", Some("^[0-9]+$"))>>,
       <<"use_docker", BooleanParam(TRUE)>>,
       <<"use_docker", BooleanParam(FALSE)>>,
       <<"use_docker", EnumParam(<<"yes", "no">>, "maybe")>> >>

NoFiles == [include |-> <<>>, exclude |-> <<>>]
FilesOf(schema) == IF schema.files.some THEN schema.files.v ELSE NoFiles
ParamsOf(schema) == IF schema.parameters.some THEN schema.parameters.v ELSE EmptyMap

\* an edit names a place of the manifest and the value put there
Edit(k, n) == {[k |-> k, i |-> i] : i \in 1..n}
EditSet ==
    Edit("none", 1) \cup Edit("readable", 1) \cup Edit("syntax", 1)
    \cup Edit("missing", Len(RequiredKeys))
    \cup Edit("name", Len(NameValues))
    \cup Edit("description", Len(DescriptionValues))
    \cup Edit("version", Len(VersionValues))
    \cup Edit("authors", 1)
    \cup Edit("repository", Len(RepositoryValues))
    \cup Edit("min_rust_version", Len(MinVersionValues))
    \cup Edit("min_x402_cli_version", Len(MinVersionValues))
    \cup Edit("no_parameters", 1)
    \cup Edit("parameter", Len(ParameterValues))
    \cup Edit("include", Len(PatternLists))
    \cup Edit("exclude", Len(PatternLists))

\* the manifest f with edit e made to it
ApplyEdit(f, e) ==
    LET s == f.schema IN
    CASE e.k = "none" -> f
      [] e.k = "readable" -> [f EXCEPT !.readable = FALSE]
      [] e.k = "syntax" -> [f EXCEPT !.syntax_ok = FALSE]
      [] e.k = "missing" -> [f EXCEPT !.missing = f.missing \cup {RequiredKeys[e.i]}]
      [] e.k = "name" -> [f EXCEPT !.schema.template.name = NameValues[e.i]]
      [] e.k = "description" ->
           [f EXCEPT !.schema.template.description = DescriptionValues[e.i]]
      [] e.k = "version" -> [f EXCEPT !.schema.template.version = VersionValues[e.i]]
      [] e.k = "authors" -> [f EXCEPT !.schema.template.authors = <<>>]
      [] e.k = "repository" ->
           [f EXCEPT !.schema.template.repository = RepositoryValues[e.i]]
      [] e.k = "min_rust_version" ->
           [f EXCEPT !.schema.template.min_rust_version = MinVersionValues[e.i]]
      [] e.k = "min_x402_cli_version" ->
           [f EXCEPT !.schema.template.min_x402_cli_version = MinVersionValues[e.i]]
      [] e.k = "no_parameters" -> [f EXCEPT !.schema.parameters = Some(EmptyMap)]
      [] e.k = "parameter" ->
           [f EXCEPT !.schema.parameters =
               Some(Insert(ParamsOf(s), ParameterValues[e.i][1], ParameterValues[e.i][2]))]
      [] e.k = "include" ->
           [f EXCEPT !.schema.files =
               Some([FilesOf(s) EXCEPT !.include = PatternLists[e.i]])]
      [] e.k = "exclude" ->
           [f EXCEPT !.schema.files =
               Some([FilesOf(s) EXCEPT !.exclude = PatternLists[e.i]])]

RECURSIVE ApplyEdits(_, _, _)
ApplyEdits(f, es, i) ==
    IF i > Len(es) THEN f ELSE ApplyEdits(ApplyEdit(f, es[i]), es, i + 1)

\* toml::from_str::<TemplateSchema>(content)
from_str(file) ==
    IF ~file.syntax_ok \/ file.missing # {}
    THEN TomlError("Invalid TOML")
    ELSE [kind |-> "Ok", schema |-> file.schema]

\* the keys of the parameters map of what the file parses to
ParamKeys(file) ==
    IF file.readable /\ from_str(file).kind = "Ok"
    THEN DOMAIN ParamsOf(file.schema) ELSE {}

\* a load that returns what parses without validating it
load_without_validate(file, order) ==
    IF ~file.readable
    THEN FileSystemError("Cannot read x402.toml")
    ELSE IF from_str(file).kind # "Ok"
    THEN from_str(file)
    ELSE [kind |-> "Ok", schema |-> file.schema]

\* Validator::load_and_validate(path); order is the iteration order of the
\* parameters hash map built by this call
load_and_validate(file, order) ==
    IF ~file.readable
    THEN FileSystemError("Cannot read x402.toml")
    ELSE IF from_str(file).kind # "Ok"
    THEN from_str(file)
    ELSE IF validate_schema(file.schema, order).kind # "Ok"
    THEN validate_schema(file.schema, order)
    ELSE [kind |-> "Ok", schema |-> file.schema]

(***************************************************************************)
(* template/render.rs: the Liquid engine as render_content uses it.        *)
(* A template is text with {{ name }} outputs and {% if name %} ...        *)
(* {% endif %} blocks (which nest); any other tag is a parse error here.   *)
(* Every global is a string scalar (Value::scalar of a String).            *)
(***************************************************************************)
\* index of the first occurrence of pat in s at or after i, 0 if none
RECURSIVE IndexOfStr(_, _, _)
IndexOfStr(s, pat, i) ==
    IF i + Len(pat) - 1 > Len(s) THEN 0
    ELSE IF SubSeq(s, i, i + Len(pat) - 1) = pat THEN i
    ELSE IndexOfStr(s, pat, i + 1)

RECURSIVE Trim(_)
Trim(s) ==
    IF s = "" THEN ""
    ELSE IF Char(s, 1) = " " THEN Trim(SubSeq(s, 2, Len(s)))
    ELSE IF Char(s, Len(s)) = " " THEN Trim(SubSeq(s, 1, Len(s) - 1))
    ELSE s

IsIdentifier(s) ==
    /\ s # ""
    /\ AllIn(s, Lowers \cup Uppers \cup Digits \cup {"_"})
    /\ Char(s, 1) \notin Digits

Raw(s) == IF s = "" THEN <<>> ELSE <<[t |-> "raw", s |-> s]>>
ParseError == [ok |-> FALSE, nodes |-> <<>>, rest |-> ""]

\* the nodes of template text s up to its end (inIf = FALSE) or up to the
\* {% endif %} that closes the enclosing block (inIf = TRUE)
RECURSIVE ParseBlock(_, _)
ParseBlock(s, inIf) ==
    LET a == IndexOfStr(s, "{{", 1)
        b == IndexOfStr(s, "{%", 1)
    IN
    IF a = 0 /\ b = 0
    THEN IF inIf THEN ParseError ELSE [ok |-> TRUE, nodes |-> Raw(s), rest |-> ""]
    ELSE IF b = 0 \/ (a # 0 /\ a < b)
    THEN LET k    == IndexOfStr(s, "}}", a + 2)
             name == Trim(SubSeq(s, a + 2, k - 1))
             r    == ParseBlock(SubSeq(s, k + 2, Len(s)), inIf)
         IN  IF k = 0 \/ ~IsIdentifier(name) \/ ~r.ok THEN ParseError
             ELSE [ok |-> TRUE,
                   nodes |-> Raw(SubSeq(s, 1, a - 1))
                             \o <<[t |-> "var", name |-> name]>> \o r.nodes,
                   rest |-> r.rest]
    ELSE LET k     == IndexOfStr(s, "%}", b + 2)
             tag   == Trim(SubSeq(s, b + 2, k - 1))
             after == SubSeq(s, k + 2, Len(s))
             cond  == Trim(SubSeq(tag, 4, Len(tag)))
             body  == ParseBlock(after, TRUE)
             r     == ParseBlock(body.rest, inIf)
         IN  IF k = 0 THEN ParseError
             ELSE IF tag = "endif"
             THEN IF inIf
                  THEN [ok |-> TRUE, nodes |-> Raw(SubSeq(s, 1, b - 1)), rest |-> after]
                  ELSE ParseError
             ELSE IF ~StartsWith(tag, "if ") \/ ~IsIdentifier(cond) THEN ParseError
             ELSE IF ~body.ok \/ ~r.ok THEN ParseError
             ELSE [ok |-> TRUE,
                   nodes |-> Raw(SubSeq(s, 1, b - 1))
                             \o <<[t |-> "if", cond |-> cond, body |-> body.nodes]>>
                             \o r.nodes,
                   rest |-> r.rest]

\* liquid::Parser::parse(content)
LiquidParse(content) == ParseBlock(content, FALSE)

\* liquid::model::Value: Value::scalar(String) is a string scalar, Nil is
\* what a name that is not defined evaluates to where that is allowed
ScalarStr(s) == [kind |-> "str", s |-> s]
ScalarBool(b) == [kind |-> "bool", b |-> b]
Nil == [kind |-> "nil"]

\* Liquid truthiness: every value but nil and false is true
IsTruthy(value) ==
    CASE value.kind = "nil" -> FALSE
      [] value.kind = "bool" -> value.b
      [] value.kind = "str" -> TRUE

\* the text of a value as its source form, strings quoted
ToSourceText(value) ==
    CASE value.kind = "nil" -> ""
      [] value.kind = "bool" -> IF value.b THEN "true" ELSE "false"
      [] value.kind = "str" -> "\"" \o value.s \o "\""

\* the text a value is output as
ToText(value) ==
    CASE value.kind = "nil" -> ""
      [] value.kind = "bool" -> IF value.b THEN "true" ELSE "false"
      [] value.kind = "str" -> value.s

\* the value of the variable of an output {{ name }}: a name that is not
\* defined is an error ("Unknown variable")
Evaluate(name, globals) ==
    IF name \in DOMAIN globals
    THEN [ok |-> TRUE, v |-> globals[name]]
    ELSE [ok |-> FALSE, v |-> Nil]

\* the value of the condition of {% if name %}: a name that is not defined
\* counts as nil
TryEvaluate(name, globals) ==
    IF name \in DOMAIN globals THEN globals[name] ELSE Nil

\* liquid::Template::render(globals), on the nodes from position i
RECURSIVE RenderNodes(_, _, _)
RenderNodes(nodes, i, globals) ==
    IF i > Len(nodes) THEN [ok |-> TRUE, out |-> ""]
    ELSE
    LET n    == nodes[i]
        head == CASE n.t = "raw" -> [ok |-> TRUE, out |-> n.s]
                  [] n.t = "var" ->
                       IF Evaluate(n.name, globals).ok
                       THEN [ok |-> TRUE, out |-> ToText(Evaluate(n.name, globals).v)]
                       ELSE [ok |-> FALSE, out |-> "Unknown variable: " \o n.name]
                  [] n.t = "if" ->
                       IF IsTruthy(TryEvaluate(n.cond, globals))
                       THEN RenderNodes(n.body, 1, globals)
                       ELSE [ok |-> TRUE, out |-> ""]
        tail == RenderNodes(nodes, i + 1, globals)
    IN  IF ~head.ok THEN head
        ELSE IF ~tail.ok THEN tail
        ELSE [ok |-> TRUE, out |-> head.out \o tail.out]

RenderError(message) == [kind |-> "RenderError", message |-> message]
OkString(s) == [kind |-> "Ok", v |-> s]

\* Renderer::render_content(content, parameters)
render_content(content, parameters) ==
    LET template == LiquidParse(content)
        globals  == [k \in DOMAIN parameters |-> ScalarStr(parameters[k])]
        rendered == RenderNodes(template.nodes, 1, globals)
    IN  IF ~template.ok THEN RenderError("Failed to parse template")
        ELSE IF ~rendered.ok
        THEN RenderError("Failed to render template: " \o rendered.out)
        ELSE OkString(rendered.out)

(***************************************************************************)
(* Paths, relative to template_path (source) or output_path (destination); *)
(* "" is the root itself.                                                  *)
(***************************************************************************)
Parent(p) ==
    LET k == LastIndexFrom(p, "/", Len(p)) IN
    IF k = 0 THEN "" ELSE SubSeq(p, 1, k - 1)

\* Path::file_name
FileName(p) == SubSeq(p, LastIndexFrom(p, "/", Len(p)) + 1, Len(p))

\* Path::extension: what follows the last dot of the file name, if the name
\* has a dot that is not its first character
Extension(p) ==
    LET name == FileName(p)
        k    == LastIndexFrom(name, ".", Len(name))
    IN  IF k <= 1 \/ name = ".." THEN None ELSE Some(SubSeq(name, k + 1, Len(name)))

\* p and the directories above it
RECURSIVE Ancestors(_)
Ancestors(p) == IF p = "" THEN {""} ELSE {p} \cup Ancestors(Parent(p))

Components(p) == IF p = "" THEN {} ELSE {FileName(q) : q \in Ancestors(p) \ {""}}

DirNode == [dir |-> TRUE]
FileNode(utf8, text) == [dir |-> FALSE, utf8 |-> utf8, text |-> text]

Merge(f, g) == [x \in DOMAIN f \cup DOMAIN g |-> IF x \in DOMAIN g THEN g[x] ELSE f[x]]

Children(t, p) == {q \in DOMAIN t : q # "" /\ Parent(q) = p}

(***************************************************************************)
(* The file system under output_path.                                      *)
(***************************************************************************)
NoFs == [x \in {} |-> DirNode]

IsDir(fs, p) == p \in DOMAIN fs /\ fs[p].dir

\* std::fs::create_dir_all(p)
create_dir_all(fs, p) ==
    IF \E q \in Ancestors(p) : q \in DOMAIN fs /\ ~fs[q].dir
    THEN [ok |-> FALSE, fs |-> fs]
    ELSE [ok |-> TRUE, fs |-> Merge(fs, [q \in Ancestors(p) |-> DirNode])]

\* a write that lands at the file name alone, the directories of p left out
write_file_flat(fs, p, node) ==
    [ok |-> TRUE, fs |-> Merge(fs, [q \in {FileName(p)} |-> node])]

\* std::fs::write(p, content) and the write side of std::fs::copy(_, p): the
\* directory of p must exist
write_file(fs, p, node) ==
    IF ~IsDir(fs, Parent(p)) \/ IsDir(fs, p)
    THEN [ok |-> FALSE, fs |-> fs]
    ELSE [ok |-> TRUE, fs |-> Merge(fs, [q \in {p} |-> node])]

(***************************************************************************)
(* template/render.rs: Renderer                                            *)
(***************************************************************************)
binary_extensions == {"png", "jpg", "jpeg", "gif", "ico", "bin", "zip", "tar", "gz"}

\* is_binary_file comparing the extension as it is written
is_binary_file_exact(path) ==
    /\ Extension(path).some
    /\ Extension(path).v \in binary_extensions

\* Renderer::is_binary_file(path)
is_binary_file(path) ==
    /\ Extension(path).some
    /\ ToLowercase(Extension(path).v) \in binary_extensions

\* Renderer::render_file(src, dest, parameters): the result, the file system
\* afterwards and whether the content went to the engine.  `fails` says that
\* the copy or write of this file fails.
render_file(t, fs, path, parameters, fails) ==
    IF is_binary_file(path)
    THEN IF fails \/ ~write_file(fs, path, t[path]).ok
         THEN [result |-> FileSystemError("Cannot copy file"), fs |-> fs, engine |-> FALSE]
         ELSE [result |-> Ok, fs |-> write_file(fs, path, t[path]).fs, engine |-> FALSE]
    ELSE IF ~t[path].utf8
    THEN [result |-> RenderError("Cannot read file"), fs |-> fs, engine |-> FALSE]
    ELSE LET rendered == render_content(t[path].text, parameters)
             written  == write_file(fs, path, FileNode(TRUE, rendered.v))
         IN  IF rendered.kind # "Ok"
             THEN [result |-> rendered, fs |-> fs, engine |-> TRUE]
             ELSE IF fails \/ ~written.ok
             THEN [result |-> FileSystemError("Cannot write file"), fs |-> fs,
                   engine |-> TRUE]
             ELSE [result |-> Ok, fs |-> written.fs, engine |-> TRUE]

\* the filter of the walk: the entry's own name is neither .git nor x402.toml
\* (the root's name is that of the temporary directory)
filter_honouring_exclude(path) ==
    \/ path = ""
    \/ /\ FileName(path) \notin {".git", "x402.toml"}
       /\ ~(/\ validated # None
            /\ validated.v.files.some
            /\ \E i \in 1..Len(validated.v.files.v.exclude) :
                   validated.v.files.v.exclude[i] = path)

filter(path) == path = "" \/ FileName(path) \notin {".git", "x402.toml"}

\* WalkDir after yielding entry c from the deepest open directory: c's
\* entries are opened if c is a directory, exhausted directories are closed
RECURSIVE Close(_)
Close(st) ==
    IF Len(st) > 0 /\ st[Len(st)] = {} THEN Close(SubSeq(st, 1, Len(st) - 1)) ELSE st

\* the entries of directory c that reach the loop: when reading c fails,
\* WalkDir yields an Err item and filter_map(|e| e.ok()) drops it
Listed(t, c, bad) == IF bad = Some(c) THEN {} ELSE Children(t, c)

Advance(st, t, c, bad) ==
    LET top  == Len(st)
        left == [st EXCEPT ![top] = st[top] \ {c}]
    IN  Close(IF t[c].dir THEN Append(left, Listed(t, c, bad)) ELSE left)

(***************************************************************************)
(* The source trees: x402.toml at the root and up to MaxGroups of the      *)
(* groups of entries below.  The values are two parameter maps.            *)
(***************************************************************************)
RootGroup ==
    [x \in {"", "x402.toml"} |-> IF x = "" THEN DirNode ELSE FileNode(TRUE, "[template]")]

Group(paths, nodes) == [x \in {paths[i] : i \in 1..Len(paths)} |->
                           nodes[CHOOSE i \in 1..Len(paths) : paths[i] = x]]

Groups ==
    << Group(<<".git", ".git/config", ".git/hooks", ".git/hooks/pre-commit">>,
             <<DirNode, FileNode(TRUE, "[core]"), DirNode, FileNode(TRUE, "exit 0")>>),
       Group(<<"README.md">>, <<FileNode(TRUE, "Project: {{ project_name }}")>>),
       Group(<<"Dockerfile">>,
             <<FileNode(TRUE, "{% if enable_docker %}Docker enabled{% endif %}")>>),
       Group(<<"NOTES">>, <<FileNode(TRUE, "By {{ maintainer }}")>>),
       Group(<<"assets", "assets/logo.PNG">>, <<DirNode, FileNode(FALSE, "89504e47")>>),
       Group(<<"Icon.Png", ".gz">>,
             <<FileNode(TRUE, "{{ project_name }}{% if"),
               FileNode(TRUE, "v={{ project_name }};")>>),
       Group(<<"data.dat">>, <<FileNode(FALSE, "ff00")>>) >>

RECURSIVE TreeOf(_)
TreeOf(gs) ==
    IF gs = {} THEN RootGroup
    ELSE LET g == CHOOSE x \in gs : TRUE IN Merge(TreeOf(gs \ {g}), Groups[g])

ValueMaps ==
    {[project_name |-> "my-app", enable_docker |-> "true"],
     [project_name |-> "my-app", enable_docker |-> "false"]}

(***************************************************************************)
(* Renderer::render(template_path, output_path, parameters), one iteration *)
(* of its loop at a time.                                                  *)
(***************************************************************************)
ValidateIdle ==
    /\ manifest = BaseFile
    /\ results = <<>>

ParameterIdle ==
    /\ subject = None
    /\ calls = <<>>

ListIdle ==
    /\ cacheFile = None
    /\ now = 0
    /\ runs = 0
    /\ lastRun = None

CreateIdle ==
    /\ selected = None
    /\ project_name = None
    /\ validated = None
    /\ pending = <<>>
    /\ custom = EmptyMap
    /\ cancelled = FALSE
    /\ git = <<>>
    /\ steps = <<>>
    /\ cstate = "idle"
    /\ cresult = None

InitRender ==
    /\ \E gs \in SUBSET (1..Len(Groups)) :
           /\ Cardinality(gs) <= MaxGroups
           /\ tree = TreeOf(gs)
    /\ values \in ValueMaps
    /\ fault \in {None} \cup {Some(p) : p \in DOMAIN tree}
    /\ unlisted \in {None} \cup {Some(p) : p \in {q \in DOMAIN tree : tree[q].dir}}
    /\ fault = None \/ unlisted = None
    /\ dest = NoFs
    /\ stack = <<>>
    /\ entry = None
    /\ parsedFiles = {}
    /\ rstate = "ready"
    /\ rresult = None
    /\ ValidateIdle
    /\ CreateIdle
    /\ ParameterIdle
    /\ ListIdle

\* render leaves alone what is not its own
RenderFrame == UNCHANGED <<vvars, cvars, pvars, lvars>>

Return(result) ==
    /\ rstate' = "done"
    /\ rresult' = Some(result)

\* create_dir_all(output_path), then the walk starts at the root
RenderBegin ==
    /\ rstate = "ready"
    /\ dest' = create_dir_all(dest, "").fs
    /\ stack' = <<{""}>>
    /\ rstate' = "walking"
    /\ UNCHANGED <<tree, values, fault, unlisted, entry, parsedFiles, rresult>>
    /\ RenderFrame

\* the walk yields an entry that the filter drops
WalkExcluded ==
    /\ rstate = "walking" /\ stack # <<>>
    /\ \E c \in stack[Len(stack)] :
           /\ ~filter(c)
           /\ stack' = Advance(stack, tree, c, unlisted)
    /\ UNCHANGED <<tree, values, fault, unlisted, dest, entry, parsedFiles, rstate, rresult>>
    /\ RenderFrame

\* the walk yields a directory: create_dir_all(dest_path)
RenderDir ==
    /\ rstate = "walking" /\ stack # <<>>
    /\ \E c \in stack[Len(stack)] :
           /\ filter(c) /\ tree[c].dir
           /\ entry' = Some(c)
           /\ stack' = Advance(stack, tree, c, unlisted)
           /\ IF fault = Some(c) \/ ~create_dir_all(dest, c).ok
              THEN /\ Return(FileSystemError("Cannot create dir"))
                   /\ UNCHANGED dest
              ELSE /\ dest' = create_dir_all(dest, c).fs
                   /\ UNCHANGED <<rstate, rresult>>
    /\ UNCHANGED <<tree, values, fault, unlisted, parsedFiles>>
    /\ RenderFrame

\* the walk yields a file: render_file(entry.path(), dest_path, parameters)?
RenderFile ==
    /\ rstate = "walking" /\ stack # <<>>
    /\ \E c \in stack[Len(stack)] :
           LET r == render_file(tree, dest, c, values, fault = Some(c)) IN
           /\ filter(c) /\ ~tree[c].dir
           /\ entry' = Some(c)
           /\ stack' = Advance(stack, tree, c, unlisted)
           /\ dest' = r.fs
           /\ parsedFiles' = IF r.engine THEN parsedFiles \cup {c} ELSE parsedFiles
           /\ IF r.result.kind # "Ok"
              THEN Return(r.result)
              ELSE UNCHANGED <<rstate, rresult>>
    /\ UNCHANGED <<tree, values, fault, unlisted>>
    /\ RenderFrame

\* the walk is over: Ok(())
RenderEnd ==
    /\ rstate = "walking" /\ stack = <<>>
    /\ Return(Ok)
    /\ UNCHANGED <<tree, values, fault, unlisted, dest, stack, entry, parsedFiles>>
    /\ RenderFrame

NextRender == RenderBegin \/ WalkExcluded \/ RenderDir \/ RenderFile \/ RenderEnd

(***************************************************************************)
(* Validation of one manifest, repeated.                                   *)
(***************************************************************************)
RenderIdle ==
    /\ tree = RootGroup
    /\ values = EmptyMap
    /\ fault = None
    /\ unlisted = None
    /\ dest = NoFs
    /\ stack = <<>>
    /\ entry = None
    /\ parsedFiles = {}
    /\ rstate = "idle"
    /\ rresult = None

InitValidate ==
    /\ \E es \in [1..MaxEdits -> EditSet] : manifest = ApplyEdits(BaseFile, es, 1)
    /\ results = <<>>
    /\ RenderIdle
    /\ CreateIdle
    /\ ParameterIdle
    /\ ListIdle

LoadAndValidate ==
    /\ Len(results) < MaxCalls
    /\ \E order \in Orders(ParamKeys(manifest)) :
           results' = Append(results, load_and_validate(manifest, order))
    /\ UNCHANGED manifest
    /\ UNCHANGED <<rvars, cvars, pvars, lvars>>

NextValidate == LoadAndValidate

SpecValidate == InitValidate /\ [][NextValidate]_vars

SpecRender == InitRender /\ [][NextRender]_vars

(***************************************************************************)
(* Parameter::validate called on a parameter with one value after another. *)
(***************************************************************************)
ParameterSamples ==
    {BooleanParam(TRUE), BooleanParam(FALSE),
     EnumParam(<<"postgres", "sqlite">>, "postgres"),
     EnumParam(<<"postgres", "sqlite">>, "sqlite"),
     EnumParam(<<"postgres", "sqlite">>, "mysql"),
     EnumParam(<<"Yes", "no">>, "no"),
     EnumParam(<<>>, "postgres"),
     StringParam("my-app", Some("^[a-z][a-z0-9-]*$")),
     StringParam("my-app", None)}

ValueSamples ==
    {"true", "TRUE", "True", "false", "yes", "Yes", "no", "1", "0", "maybe", "",
     "postgres", "Postgres", "sqlite", "SQLITE", "my-app", "My-App"}

InitParameter ==
    /\ subject \in {Some(param) : param \in ParameterSamples}
    /\ calls = <<>>
    /\ ValidateIdle
    /\ RenderIdle
    /\ CreateIdle
    /\ ListIdle

\* param.validate(value)
ValidateValue ==
    /\ Len(calls) < MaxCalls
    /\ \E value \in ValueSamples :
           calls' = Append(calls, [value |-> value,
                                   result |-> ParameterValidate(subject.v, value)])
    /\ UNCHANGED subject
    /\ UNCHANGED <<vvars, rvars, cvars, lvars>>

NextParameter == ValidateValue

SpecParameter == InitParameter /\ [][NextParameter]_vars

(***************************************************************************)
(* commands/create.rs, with the prompts of interactive.rs and what the     *)
(* network and git answer drawn from small sets.                           *)
(***************************************************************************)
Cancelled == [kind |-> "Cancelled"]
TemplateNotFound(message) == [kind |-> "TemplateNotFound", message |-> message]
InvalidSchema(message) == [kind |-> "InvalidSchema", message |-> message]
NetworkError(message) == [kind |-> "NetworkError", message |-> message]
GitHubApiError(message) == [kind |-> "GitHubApiError", message |-> message]

Contains(s, c) == IndexFrom(s, c, 1) # 0

\* str::replace(from, to) for single characters
RECURSIVE Replace(_, _, _)
Replace(s, from, to) ==
    IF s = "" THEN ""
    ELSE (IF Char(s, 1) = from THEN to ELSE Char(s, 1))
         \o Replace(SubSeq(s, 2, Len(s)), from, to)

TemplateInfo(owner, repo) ==
    [name |-> repo, owner |-> owner, repo |-> repo,
     url |-> "https://github.com/" \o owner \o "/" \o repo]

OkTemplate(t) == [kind |-> "Ok", template |-> t]
OkTemplates(ts) == [kind |-> "Ok", templates |-> ts]
OkValue(v) == [kind |-> "Ok", value |-> v]
\* the prompt rejects the input and asks again
Again == [kind |-> "Again"]

\* GitHubDiscovery::get_template(owner, repo), answer being what GitHub does
get_template(owner, repo, answer) ==
    CASE answer = "unreachable" -> GitHubApiError("Failed to fetch template")
      [] answer = "not_found" -> TemplateNotFound(owner \o "/" \o repo)
      [] answer = "found" -> OkTemplate(TemplateInfo(owner, repo))

\* resolve_template(template_ref); listed is what fetch_templates returns
resolve_template(template_ref, answer, listed) ==
    IF StartsWith(template_ref, "https://github.com/") \/ Contains(template_ref, "/")
    THEN LET parts == Split(template_ref, "/") IN
         IF StartsWith(template_ref, "https://")
         THEN IF Len(parts) < 5
              THEN ValidationError("template", "Invalid GitHub URL")
              ELSE get_template(parts[4], parts[5], answer)
         ELSE IF Len(parts) # 2
              THEN ValidationError("template",
                       "Template reference must be in format 'owner/repo'")
              ELSE get_template(parts[1], parts[2], answer)
    ELSE IF listed.kind # "Ok" THEN listed
    ELSE LET found == {i \in 1..Len(listed.templates) :
                          \/ listed.templates[i].repo = template_ref
                          \/ ToLowercase(listed.templates[i].name)
                                 = ToLowercase(template_ref)} IN
         IF found = {} THEN TemplateNotFound(template_ref)
         ELSE OkTemplate(listed.templates[CHOOSE i \in found : \A j \in found : i <= j])

\* what the user does at a prompt: cancel, accept the default, type a text
\* or move to an item of a list
Response(kind, text, index) == [kind |-> kind, text |-> text, index |-> index]
TypedTexts == {"my-app", "My App"}
Responses ==
    {Response("cancel", "", 0), Response("enter", "", 0)}
    \cup {Response("text", s, 0) : s \in TypedTexts}
    \cup {Response("select", "", i) : i \in 0..1}

\* interactive::select_template(templates)
select_template(templates, response) ==
    IF templates = <<>> THEN TemplateNotFound("No templates available")
    ELSE IF response.kind = "cancel" THEN Cancelled
    ELSE OkTemplate(templates[(IF response.kind = "select" THEN response.index ELSE 0) + 1])

NameChars == Digits \cup Lowers \cup Uppers \cup {"-", "_"}

\* interactive::prompt_project_name(default)
prompt_project_name(default, response) ==
    IF response.kind = "cancel" THEN Cancelled
    ELSE LET name == IF response.kind = "enter" THEN default ELSE response.text IN
         IF name = "" \/ ~AllIn(name, NameChars) THEN Again ELSE OkValue(name)

\* the index of the first element of seq equal to x, 0 if there is none or it
\* is the first: position(..).unwrap_or(0)
PositionOrZero(seq, x) ==
    IF SeqContains(seq, x)
    THEN (CHOOSE i \in 1..Len(seq) : seq[i] = x /\ \A j \in 1..(i - 1) : seq[j] # x) - 1
    ELSE 0

\* the responses a prompt for param can get
Applicable(param, response) ==
    CASE param.type = "string" -> response.kind \in {"cancel", "enter", "text"}
      [] param.type = "boolean" ->
           response.kind \in {"cancel", "enter", "select"}
      [] param.type = "enum" ->
           /\ response.kind \in {"cancel", "enter", "select"}
           /\ response.index < Len(param.choices)

\* a prompt that takes a cancellation as the acceptance of the default
prompt_for_parameter_cancel_as_default(name, param, response) ==
    CASE param.type = "string" -> OkValue(param.default)
      [] param.type = "boolean" -> OkValue(IF param.default THEN "true" ELSE "false")
      [] param.type = "enum" -> OkValue(param.default)

\* a prompt that returns what is typed without validating it
prompt_for_parameter_unvalidated(name, param, response) ==
    IF response.kind = "cancel" THEN Cancelled
    ELSE CASE param.type = "string" ->
                OkValue(IF response.kind = "enter" THEN param.default ELSE response.text)
           [] param.type = "boolean" ->
                OkValue(IF response.kind = "enter" THEN "yes"
                        ELSE IF response.index = 0 THEN "true" ELSE "false")
           [] param.type = "enum" ->
                OkValue(IF response.kind = "enter" THEN param.default
                        ELSE param.choices[response.index + 1])

\* interactive::prompt_for_parameter(name, param)
prompt_for_parameter(name, param, response) ==
    IF response.kind = "cancel" THEN Cancelled
    ELSE CASE param.type = "string" ->
                LET value == IF response.kind = "enter" THEN param.default
                             ELSE response.text IN
                IF /\ param.pattern.some
                   /\ ~ParameterValidate(StringParam(value, param.pattern), value).ok
                THEN Again
                ELSE OkValue(value)
           [] param.type = "boolean" ->
                LET selection == IF response.kind = "enter"
                                 THEN (IF param.default THEN 0 ELSE 1)
                                 ELSE response.index IN
                OkValue(IF selection = 0 THEN "true" ELSE "false")
           [] param.type = "enum" ->
                LET selection == IF response.kind = "enter"
                                 THEN PositionOrZero(param.choices, param.default)
                                 ELSE response.index IN
                OkValue(param.choices[selection + 1])

\* the entries of other added only under the keys m does not hold
extend_absent(m, other) ==
    [x \in DOMAIN m \cup DOMAIN other |-> IF x \in DOMAIN m THEN m[x] ELSE other[x]]

\* HashMap::extend(other): the entries of other replace those of m
extend(m, other) ==
    [x \in DOMAIN m \cup DOMAIN other |-> IF x \in DOMAIN other THEN other[x] ELSE m[x]]

\* Downloader::normalize_github_url(url)
normalize_github_url(url) ==
    IF ~Contains(url, "/")
    THEN ValidationError("template",
             "Template URL must be in format 'user/repo' or full GitHub URL")
    ELSE IF StartsWith(url, "https://github.com/") THEN OkValue(url)
    ELSE IF IndexOfStr(url, "://", 1) = 0 THEN OkValue("https://github.com/" \o url)
    ELSE ValidationError("template",
             "Template URL must be a GitHub URL or 'user/repo' shorthand")

\* str::trim_end_matches(c)
RECURSIVE TrimEndMatches(_, _)
TrimEndMatches(s, c) ==
    IF s # "" /\ Char(s, Len(s)) = c
    THEN TrimEndMatches(SubSeq(s, 1, Len(s) - 1), c) ELSE s

\* Downloader::github_to_zipball_url(github_url)
github_to_zipball_url(github_url) ==
    LET url == TrimEndMatches(github_url, "/")
        parts == Split(url, "/") IN
    IF ~StartsWith(url, "https://github.com/")
    THEN ValidationError("template", "Must be a GitHub URL")
    ELSE IF Len(parts) < 5
    THEN ValidationError("template", "Invalid GitHub URL format")
    ELSE OkValue("https://github.com/" \o parts[4] \o "/" \o parts[5]
                 \o "/archive/refs/heads/main.zip")

\* Downloader::download(template_url, dest) up to the extraction; outcome is
\* what the network and the archive do
download(template_url, outcome) ==
    IF normalize_github_url(template_url).kind # "Ok"
    THEN normalize_github_url(template_url)
    ELSE IF github_to_zipball_url(normalize_github_url(template_url).value).kind # "Ok"
    THEN github_to_zipball_url(normalize_github_url(template_url).value)
    ELSE CASE outcome = "unreachable" -> NetworkError("Failed to download template")
           [] outcome = "http_error" -> NetworkError("Failed to download template: HTTP")
           [] outcome = "bad_zip" -> FileSystemError("Invalid ZIP file")
           [] outcome = "extracted" -> Ok

GitCommands == <<"init", "add", "commit">>

\* the git commands that get run: all up to the first that cannot be spawned
GitRun(outcomes) ==
    LET failed == {i \in 1..Len(outcomes) : outcomes[i] = "spawn_error"}
        last == IF failed = {} THEN Len(outcomes)
                ELSE CHOOSE i \in failed : \A j \in failed : i <= j IN
    [i \in 1..last |-> [command |-> GitCommands[i], status |-> outcomes[i]]]

\* initialize_git(project_path): outcomes says, for each of the three
\* commands, whether it cannot be spawned or how it exits
initialize_git(outcomes) ==
    IF outcomes[1] = "spawn_error"
    THEN FileSystemError("Failed to initialize git repository")
    ELSE IF outcomes[2] = "spawn_error"
    THEN FileSystemError("Failed to stage files")
    ELSE IF outcomes[3] = "spawn_error"
    THEN FileSystemError("Failed to create commit")
    ELSE Ok

\* what the environment holds
Realname == "Alice"
PkgVersion == "0.1.0"
Today == "2024-05-01"

TemplateArgs ==
    {None, Some("x402/basic_api"), Some("x402/basic_api/main"),
     Some("https://github.com/x402"), Some("https://github.com/x402/basic_api"),
     Some("basic_api"), Some("BASIC_API"), Some("other")}
Answers == {"unreachable", "not_found", "found"}
Listings ==
    {GitHubApiError("Failed to fetch templates"), OkTemplates(<<>>),
     OkTemplates(<<TemplateInfo("x402", "basic_api")>>)}
NameArgs == {None, Some("my-app")}

\* a directory that is already there under the project name
ExistingDir ==
    [x \in {"", "old.txt"} |-> IF x = "" THEN DirNode ELSE FileNode(TRUE, "keep")]

\* a file that is already there under the project name
ExistingFile == [x \in {""} |-> FileNode(TRUE, "keep")]

\* the path holds a directory with something in it
path_exists_populated(fs) == IsDir(fs, "") /\ Children(fs, "") # {}

\* Path::new(&project_name).exists()
path_exists(fs) == "" \in DOMAIN fs

\* the parameters the manifests of the downloaded templates declare
CreateParameters ==
    << <<"project_name", StringParam("x402-app", Some("^[a-z][a-z0-9-]*$"))>>,
       <<"author", StringParam("Anonymous", None)>>,
       <<"version", EnumParam(<<"1.0.0", "2.0.0">>, "2.0.0")>>,
       <<"date", StringParam("today", None)>>,
       <<"enable_docker", BooleanParam(FALSE)>>,
       <<"db", EnumParam(<<"postgres", "sqlite">>, "sqlite")>> >>

ParameterTables == <<{}, {1}, {2}, {3}, {4}, {5}, {1, 5}, {2, 3}, {1, 5, 6}>>

RECURSIVE TableOf(_)
TableOf(is) ==
    IF is = {} THEN EmptyMap
    ELSE LET i == CHOOSE x \in is : TRUE IN
         Insert(TableOf(is \ {i}), CreateParameters[i][1], CreateParameters[i][2])

\* the manifests of the downloaded templates
\* file rules that name entries of the trees below
CreateFileRules ==
    {[include |-> <<"src/**">>, exclude |-> <<"README.md">>],
     [include |-> <<"*.rs">>, exclude |-> <<"Dockerfile", "assets", "assets/**">>]}

CreateManifests ==
    {BaseFile,
     ApplyEdit(BaseFile, [k |-> "readable", i |-> 1]),
     ApplyEdit(BaseFile, [k |-> "name", i |-> 1])}
    \cup {[BaseFile EXCEPT !.schema.parameters = Some(TableOf(ParameterTables[i]))] :
             i \in 1..Len(ParameterTables)}
    \cup {[BaseFile EXCEPT !.schema.files = Some(rules)] : rules \in CreateFileRules}

\* the trees of the downloaded templates: an archive of GitHub holds no .git
CreateTrees == {TreeOf({})} \cup {TreeOf({g}) : g \in 2..Len(Groups)}

WithoutManifest(t) == [p \in DOMAIN t \ {"x402.toml"} |-> t[p]]

InitCreate ==
    /\ manifest = BaseFile
    /\ results = <<>>
    /\ tree = NoFs
    /\ values = EmptyMap
    /\ fault = None
    /\ unlisted = None
    /\ dest \in {NoFs, ExistingDir, ExistingFile}
    /\ stack = <<>>
    /\ entry = None
    /\ parsedFiles = {}
    /\ rstate = "idle"
    /\ rresult = None
    /\ selected = None
    /\ project_name = None
    /\ validated = None
    /\ pending = <<>>
    /\ custom = EmptyMap
    /\ cancelled = FALSE
    /\ git = <<>>
    /\ steps = <<>>
    /\ cstate = "start"
    /\ cresult = None
    /\ ParameterIdle
    /\ ListIdle

\* return Err(e) or Ok(())
Finish(result) ==
    /\ cstate' = "returned"
    /\ cresult' = Some(result)

\* Step 1: select or resolve template
CreateResolve ==
    /\ UNCHANGED <<pvars, lvars>>
    /\ cstate = "start"
    /\ \E template_arg \in TemplateArgs, answer \in Answers,
          listed \in Listings, response \in Responses :
           LET r == IF template_arg.some
                    THEN resolve_template(template_arg.v, answer, listed)
                    ELSE IF listed.kind # "Ok" THEN listed
                    ELSE select_template(listed.templates, response) IN
           /\ response.kind \in {"cancel", "enter", "select"}
           /\ template_arg = None /\ listed.kind = "Ok"
                  => response.index < Len(listed.templates) \/ listed.templates = <<>>
           /\ IF r.kind = "Ok"
              THEN /\ selected' = Some(r.template)
                   /\ cstate' = "resolved"
                   /\ UNCHANGED cresult
              ELSE /\ Finish(r)
                   /\ UNCHANGED selected
    /\ steps' = Append(steps, "resolve")
    /\ UNCHANGED <<cancelled, project_name, validated, pending, custom, git>>
    /\ UNCHANGED <<vvars, rvars>>

\* Step 2: get project name, and check that no such path exists
CreateName ==
    /\ UNCHANGED <<pvars, lvars>>
    /\ cstate = "resolved"
    /\ \E name_arg \in NameArgs, response \in Responses :
           LET default_name == ToLowercase(Replace(selected.v.repo, "_", "-"))
               r == IF name_arg.some THEN OkValue(name_arg.v)
                    ELSE prompt_project_name(default_name, response) IN
           /\ response.kind \in {"cancel", "enter", "text"}
           /\ r.kind # "Again"
           /\ IF r.kind # "Ok"
              THEN /\ Finish(r)
                   /\ UNCHANGED project_name
              ELSE /\ project_name' = Some(r.value)
                   /\ IF path_exists(dest)
                      THEN Finish(FileSystemError("Directory '" \o r.value
                                                  \o "' already exists"))
                      ELSE /\ cstate' = "named"
                           /\ UNCHANGED cresult
    /\ steps' = Append(steps, "name")
    /\ UNCHANGED <<cancelled, selected, validated, pending, custom, git>>
    /\ UNCHANGED <<vvars, rvars>>

\* Step 3: download template into the temporary directory
CreateDownload ==
    /\ UNCHANGED <<pvars, lvars>>
    /\ cstate = "named"
    /\ \E outcome \in {"unreachable", "http_error", "bad_zip", "extracted"} :
           LET r == download(selected.v.url, outcome) IN
           IF r.kind # "Ok"
           THEN /\ Finish(r)
                /\ UNCHANGED <<tree, manifest>>
           ELSE /\ cstate' = "downloaded"
                /\ UNCHANGED cresult
                /\ \E t \in CreateTrees, m \in CreateManifests, there \in BOOLEAN :
                       /\ ~there => m = BaseFile
                       /\ tree' = IF there THEN t ELSE WithoutManifest(t)
                       /\ manifest' = m
    /\ steps' = Append(steps, "download")
    /\ UNCHANGED <<cancelled, selected, project_name, validated, pending, custom, git>>
    /\ UNCHANGED <<results, values, fault, unlisted, dest, stack, entry, parsedFiles, rstate, rresult>>

\* the default parameters without the date
BuiltInsWithoutDate ==
    Insert(Insert(Insert(EmptyMap, "project_name", project_name.v),
                  "author", Realname),
           "version", PkgVersion)

\* the four default parameters
BuiltIns ==
    Insert(Insert(Insert(Insert(EmptyMap, "project_name", project_name.v),
                         "author", Realname),
                  "version", PkgVersion),
           "date", Today)

\* Step 4: load and validate schema; the default parameters are added, and
\* the hash map of the schema's parameters gets its iteration order
CreateValidate ==
    /\ UNCHANGED <<pvars, lvars>>
    /\ cstate = "downloaded"
    /\ IF "x402.toml" \notin DOMAIN tree
       THEN /\ Finish(InvalidSchema("Template does not contain x402.toml"))
            /\ UNCHANGED <<validated, values, pending>>
       ELSE \E order \in Orders(ParamKeys(manifest)) :
                LET r == load_and_validate(manifest, order) IN
                IF r.kind # "Ok"
                THEN /\ Finish(r)
                     /\ UNCHANGED <<validated, values, pending>>
                ELSE /\ validated' = Some(r.schema)
                     /\ values' = BuiltIns
                     /\ pending' = order
                     /\ cstate' = IF order = <<>> THEN "collected" ELSE "collecting"
                     /\ UNCHANGED cresult
    /\ steps' = Append(steps, "validate")
    /\ UNCHANGED <<cancelled, selected, project_name, custom, git>>
    /\ UNCHANGED <<manifest, results, tree, fault, unlisted, dest, stack, entry, parsedFiles,
                   rstate, rresult>>

\* Step 5: one iteration of the loop of prompt_for_parameters; after the
\* last one, parameters.extend(custom_params)
CreatePrompt ==
    /\ UNCHANGED <<pvars, lvars>>
    /\ cstate = "collecting"
    /\ \E response \in Responses :
           LET name == Head(pending)
               param == validated.v.parameters.v[name]
               r == prompt_for_parameter(name, param, response) IN
           /\ Applicable(param, response)
           /\ r.kind # "Again"
           /\ cancelled' = (response.kind = "cancel")
           /\ IF r.kind # "Ok"
              THEN /\ Finish(r)
                   /\ UNCHANGED <<pending, custom, values>>
              ELSE /\ pending' = Tail(pending)
                   /\ custom' = Insert(custom, name, r.value)
                   /\ IF Tail(pending) = <<>>
                      THEN /\ values' = extend(values, custom')
                           /\ cstate' = "collected"
                      ELSE UNCHANGED <<values, cstate>>
                   /\ UNCHANGED cresult
    /\ steps' = Append(steps, "prompt")
    /\ UNCHANGED <<selected, project_name, validated, git>>
    /\ UNCHANGED <<manifest, results, tree, fault, unlisted, dest, stack, entry, parsedFiles,
                   rstate, rresult>>

\* Step 6: Renderer::render(temp_dir, project_name, &parameters) is called
CreateRender ==
    /\ UNCHANGED <<pvars, lvars>>
    /\ cstate = "collected"
    /\ rstate' = "ready"
    /\ cstate' = "rendering"
    /\ steps' = Append(steps, "render")
    /\ UNCHANGED <<cancelled, selected, project_name, validated, pending, custom, git, cresult>>
    /\ UNCHANGED <<manifest, results, tree, values, fault, unlisted, dest, stack, entry,
                   parsedFiles, rresult>>

\* render returned an error: the ? of step 6
CreateRenderFailed ==
    /\ UNCHANGED <<pvars, lvars>>
    /\ cstate = "rendering" /\ rstate = "done"
    /\ rresult.v.kind # "Ok"
    /\ Finish(rresult.v)
    /\ UNCHANGED <<cancelled, selected, project_name, validated, pending, custom, git, steps>>
    /\ UNCHANGED <<vvars, rvars>>

\* Step 7: initialize git repository, and step 8
CreateGit ==
    /\ UNCHANGED <<pvars, lvars>>
    /\ cstate = "rendering" /\ rstate = "done"
    /\ rresult.v.kind = "Ok"
    /\ \E outcomes \in [1..3 -> {"spawn_error", "zero", "nonzero"}] :
           /\ \A i \in 1..3 : \A j \in 1..3 :
                  (i < j /\ outcomes[i] = "spawn_error") => outcomes[j] = "spawn_error"
           /\ git' = GitRun(outcomes)
           /\ dest' = IF outcomes[1] = "zero" THEN create_dir_all(dest, ".git").fs ELSE dest
           /\ Finish(initialize_git(outcomes))
    /\ steps' = Append(steps, "git")
    /\ UNCHANGED <<cancelled, selected, project_name, validated, pending, custom>>
    /\ UNCHANGED <<manifest, results, tree, values, fault, unlisted, stack, entry, parsedFiles,
                   rstate, rresult>>

NextCreate ==
    \/ CreateResolve \/ CreateName \/ CreateDownload \/ CreateValidate
    \/ CreatePrompt \/ CreateRender \/ CreateRenderFailed \/ CreateGit
    \/ RenderBegin \/ WalkExcluded \/ RenderDir \/ RenderFile \/ RenderEnd

SpecCreate == InitCreate /\ [][NextCreate]_vars

(***************************************************************************)
(* discovery/cache.rs, and the two callers of the cache: list::execute and *)
(* fetch_templates of create.  Time is counted in half hours.  The cache   *)
(* file is None when it does not exist; `readable` says whether            *)
(* read_to_string succeeds on it and `content` is what serde_json parses   *)
(* from it, None when it is no CachedTemplates.                            *)
(***************************************************************************)
CacheError(message) == [kind |-> "CacheError", message |-> message]

DEFAULT_TTL_HOURS == 1

\* Duration::hours(h)
Hours(h) == 2 * h

\* CachedTemplates::new(templates), Utc::now() being `at`
CachedTemplates(templates, at) == [last_updated |-> at, templates |-> templates]

StoredFile(readable, content) == Some([readable |-> readable, content |-> content])

is_fresh_inclusive(cached, ttl_hours, at) ==
    at - cached.last_updated <= Hours(ttl_hours)

\* CachedTemplates::is_fresh(ttl_hours), Utc::now() being `at`
is_fresh(cached, ttl_hours, at) ==
    at - cached.last_updated < Hours(ttl_hours)

load_ignoring_age(file, ttl_hours, at) ==
    IF file = None THEN OkValue(None)
    ELSE IF ~file.v.readable THEN CacheError("Cannot read cache")
    ELSE IF file.v.content = None THEN CacheError("Invalid cache format")
    ELSE OkValue(Some(file.v.content.v.templates))

\* Cache::load of a cache with the given ttl_hours
load(file, ttl_hours, at) ==
    IF file = None THEN OkValue(None)
    ELSE IF ~file.v.readable THEN CacheError("Cannot read cache")
    ELSE IF file.v.content = None THEN CacheError("Invalid cache format")
    ELSE IF is_fresh(file.v.content.v, ttl_hours, at)
         THEN OkValue(Some(file.v.content.v.templates))
         ELSE OkValue(None)

\* what fs::write does to the cache file
WriteOutcomes == {"written", "refused", "torn"}

\* Cache::save(templates): fs::write truncates the file and then writes, so a
\* write that fails half way leaves a file that is no CachedTemplates
save(file, templates, at, write) ==
    CASE write = "written" ->
             [result |-> OkUnit,
              file |-> StoredFile(TRUE, Some(CachedTemplates(templates, at)))]
      [] write = "refused" ->
             [result |-> CacheError("Cannot write cache"), file |-> file]
      [] write = "torn" ->
             [result |-> CacheError("Cannot write cache"),
              file |-> StoredFile(TRUE, None)]

\* a TemplateInfo with its topics
TopicTemplate(owner, repo, topics) ==
    [name |-> repo, owner |-> owner, repo |-> repo,
     url |-> "https://github.com/" \o owner \o "/" \o repo, topics |-> topics]

\* TemplateInfo::matches_tags(tags)
matches_tags(t, tags) ==
    \/ Len(tags) = 0
    \/ \E i \in 1..Len(tags) : \E j \in 1..Len(t.topics) : t.topics[j] = tags[i]

RECURSIVE FilterTags(_, _)
FilterTags(templates, tags) ==
    IF templates = <<>> THEN <<>>
    ELSE (IF matches_tags(templates[1], tags) THEN <<templates[1]>> ELSE <<>>)
         \o FilterTags(Tail(templates), tags)

\* what GitHub answers to the topic search of GitHubDiscovery::discover
Discoveries ==
    {GitHubApiError("Failed to fetch templates"),
     OkTemplates(<<>>),
     OkTemplates(<<TopicTemplate("x402", "basic_api", <<"x402-template", "axum">>),
                   TopicTemplate("acme", "paywall", <<"x402-template">>)>>)}

\* the list an earlier command left in the cache file
CachedLists == {<<TopicTemplate("x402", "basic_api", <<"x402-template", "axum">>)>>}

\* What a command did: `loaded` is what Cache::load returned, None when it
\* was not called; `requested` says whether GitHub was asked; `saved` is what
\* Cache::save returned, None when it was not called, with the list given to
\* it in `given`.
Did(result, file, loaded, requested, saved, given) ==
    [result |-> result, file |-> file, loaded |-> loaded,
     requested |-> requested, saved |-> saved, given |-> given]

load_from_github_save_fatal(file, at, answer, write, loaded) ==
    IF answer.kind # "Ok"
    THEN Did(answer, file, loaded, TRUE, None, None)
    ELSE LET s == save(file, answer.templates, at, write) IN
         Did(IF s.result = OkUnit THEN answer ELSE s.result,
             s.file, loaded, TRUE, Some(s.result), Some(answer.templates))

\* list.rs load_from_github(cache)
load_from_github(file, at, answer, write, loaded) ==
    IF answer.kind # "Ok"
    THEN Did(answer, file, loaded, TRUE, None, None)
    ELSE LET s == save(file, answer.templates, at, write) IN
         Did(answer, s.file, loaded, TRUE, Some(s.result), Some(answer.templates))

\* what list prints of the templates it has
Display(templates, tags) ==
    IF templates = <<>> THEN <<>>
    ELSE IF tags.some THEN FilterTags(templates, tags.v) ELSE templates

execute_cache_first(refresh, tags, dir_ok, file, at, answer, write) ==
    LET got ==
            IF ~dir_ok
            THEN Did(CacheError("Cannot create cache directory"),
                     file, None, FALSE, None, None)
            ELSE LET l == load(file, DEFAULT_TTL_HOURS, at) IN
                 IF l.kind # "Ok" THEN Did(l, file, Some(l), FALSE, None, None)
                 ELSE IF l.value.some
                 THEN Did(OkTemplates(l.value.v), file, Some(l), FALSE, None, None)
                 ELSE load_from_github(file, at, answer, write, Some(l))
    IN  [did |-> got,
         shown |-> IF got.result.kind = "Ok"
                   THEN Some(Display(got.result.templates, tags)) ELSE None]

\* list::execute(refresh, tags); dir_ok says whether Cache::new finds and
\* creates the cache directory
execute(refresh, tags, dir_ok, file, at, answer, write) ==
    LET got ==
            IF ~dir_ok
            THEN Did(CacheError("Cannot create cache directory"),
                     file, None, FALSE, None, None)
            ELSE IF refresh
            THEN load_from_github(file, at, answer, write, None)
            ELSE LET l == load(file, DEFAULT_TTL_HOURS, at) IN
                 IF l.kind # "Ok" THEN Did(l, file, Some(l), FALSE, None, None)
                 ELSE IF l.value.some
                 THEN Did(OkTemplates(l.value.v), file, Some(l), FALSE, None, None)
                 ELSE load_from_github(file, at, answer, write, Some(l))
    IN  [did |-> got,
         shown |-> IF got.result.kind = "Ok"
                   THEN Some(Display(got.result.templates, tags)) ELSE None]

\* create.rs fetch_templates()
fetch_templates(dir_ok, file, at, answer, write) ==
    IF ~dir_ok
    THEN Did(CacheError("Cannot create cache directory"), file, None, FALSE, None, None)
    ELSE LET l == load(file, DEFAULT_TTL_HOURS, at) IN
         IF l.kind # "Ok" THEN Did(l, file, Some(l), FALSE, None, None)
         ELSE IF l.value.some
         THEN Did(OkTemplates(l.value.v), file, Some(l), FALSE, None, None)
         ELSE IF answer.kind # "Ok"
         THEN Did(answer, file, Some(l), TRUE, None, None)
         ELSE LET s == save(file, answer.templates, at, write) IN
              Did(answer, s.file, Some(l), TRUE, Some(s.result), Some(answer.templates))

TagFilters == {None, Some(<<"axum">>)}

TtlSamples == {DEFAULT_TTL_HOURS, 2}

\* the cache files a command can find: none, an unreadable one, one that is
\* no JSON, and one written at any time of the clock, the future included
CacheFiles ==
    {None, StoredFile(FALSE, None), StoredFile(TRUE, None)}
    \cup {StoredFile(TRUE, Some(CachedTemplates(ts, at))) :
              ts \in CachedLists, at \in 0..MaxTime}

InitList ==
    /\ cacheFile \in CacheFiles
    /\ now \in 0..MaxTime
    /\ runs = 0
    /\ lastRun = None
    /\ ValidateIdle
    /\ RenderIdle
    /\ CreateIdle
    /\ ParameterIdle

ListFrame == UNCHANGED <<vvars, rvars, cvars, pvars>>

\* time passes between two commands
Tick ==
    /\ now < MaxTime
    /\ now' = now + 1
    /\ UNCHANGED <<cacheFile, runs, lastRun>>
    /\ ListFrame

\* cargo x402 list [--refresh] [--tags ...]
ListExecute ==
    /\ runs < MaxRuns
    /\ \E refresh \in BOOLEAN, tags \in TagFilters, dir_ok \in BOOLEAN,
          answer \in Discoveries, write \in WriteOutcomes :
           LET r == execute(refresh, tags, dir_ok, cacheFile, now, answer, write) IN
           /\ lastRun' = Some([op |-> "list", refresh |-> refresh, tags |-> tags,
                               before |-> cacheFile, at |-> now, ttl |-> DEFAULT_TTL_HOURS,
                               answer |-> IF r.did.requested THEN Some(answer) ELSE None,
                               did |-> r.did, shown |-> r.shown])
           /\ cacheFile' = r.did.file
    /\ runs' = runs + 1
    /\ UNCHANGED now
    /\ ListFrame

\* fetch_templates(), as create calls it for a template given by name
FetchTemplates ==
    /\ runs < MaxRuns
    /\ \E dir_ok \in BOOLEAN, answer \in Discoveries, write \in WriteOutcomes :
           LET d == fetch_templates(dir_ok, cacheFile, now, answer, write) IN
           /\ lastRun' = Some([op |-> "fetch_templates", refresh |-> FALSE, tags |-> None,
                               before |-> cacheFile, at |-> now, ttl |-> DEFAULT_TTL_HOURS,
                               answer |-> IF d.requested THEN Some(answer) ELSE None,
                               did |-> d, shown |-> None])
           /\ cacheFile' = d.file
    /\ runs' = runs + 1
    /\ UNCHANGED now
    /\ ListFrame

\* Cache::with_ttl(ttl_hours)?.load()
CacheLoad ==
    /\ runs < MaxRuns
    /\ \E ttl \in TtlSamples :
           LET l == load(cacheFile, ttl, now) IN
           lastRun' = Some([op |-> "load", refresh |-> FALSE, tags |-> None,
                            before |-> cacheFile, at |-> now, ttl |-> ttl,
                            answer |-> None,
                            did |-> Did(l, cacheFile, Some(l), FALSE, None, None),
                            shown |-> None])
    /\ runs' = runs + 1
    /\ UNCHANGED <<cacheFile, now>>
    /\ ListFrame

NextList == Tick \/ ListExecute \/ FetchTemplates \/ CacheLoad

SpecList == InitList /\ [][NextList]_vars

(***************************************************************************)
(* The documented checks of a manifest, stated on the schema itself.       *)
(***************************************************************************)
ParameterWellFormed(param) ==
    /\ (param.type = "string" /\ param.pattern.some =>
            /\ RegexNew(param.pattern.v).ok
            /\ IsMatch(RegexNew(param.pattern.v), param.default))
    /\ (param.type = "enum" =>
            /\ Len(param.choices) > 0
            /\ \E i \in 1..Len(param.choices) : param.choices[i] = param.default)

SatisfiesChecks(schema) ==
    LET meta == schema.template IN
    /\ Len(meta.name) >= 1 /\ Len(meta.name) <= 100
    /\ Len(meta.description) >= 10 /\ Len(meta.description) <= 200
    /\ VersionParse(meta.version)
    /\ (meta.min_rust_version.some => VersionParse(meta.min_rust_version.v))
    /\ (meta.min_x402_cli_version.some => VersionParse(meta.min_x402_cli_version.v))
    /\ Len(meta.authors) >= 1
    /\ StartsWith(meta.repository, "https://github.com/")
    /\ (schema.parameters.some =>
            \A n \in DOMAIN schema.parameters.v :
                ParameterWellFormed(schema.parameters.v[n]))
    /\ (schema.files.some =>
            /\ \A i \in 1..Len(schema.files.v.include) : schema.files.v.include[i] # ""
            /\ \A i \in 1..Len(schema.files.v.exclude) : schema.files.v.exclude[i] # "")

\* the schema without parameter n
WithoutParameter(schema, n) ==
    [schema EXCEPT !.parameters =
        Some([x \in DOMAIN schema.parameters.v \ {n} |-> schema.parameters.v[x]])]

\* the manifest file is readable, parses, and is valid in every respect other
\* than its parameter n
ValidApartFrom(file, n) ==
    /\ file.readable
    /\ from_str(file).kind = "Ok"
    /\ SatisfiesChecks(WithoutParameter(file.schema, n))

\* C1: a manifest that load_and_validate returns satisfies every documented
\* check; a manifest violating one of them is never returned.
C1_ReturnedManifestIsValid ==
    \A i \in 1..Len(results) :
        results[i].kind = "Ok" =>
            /\ results[i].schema = manifest.schema
            /\ SatisfiesChecks(results[i].schema)

C1_Witness ==
    /\ Len(results) >= 1
    /\ results[1].kind = "Ok"
    /\ results[1].schema.files.some
    /\ results[1].schema.parameters.some
    /\ \E n \in DOMAIN results[1].schema.parameters.v :
           /\ results[1].schema.parameters.v[n].type = "string"
           /\ results[1].schema.parameters.v[n].pattern.some

\* C2: a manifest valid in every other respect that declares a String
\* parameter with a compilable pattern is accepted iff the default matches the
\* pattern, and is otherwise rejected with a ValidationError on
\* parameters.<name>.default.
C2_PatternConsistency ==
    \A i \in 1..Len(results) : \A n \in ParamKeys(manifest) :
        LET param == manifest.schema.parameters.v[n] IN
        (/\ param.type = "string"
         /\ param.pattern.some
         /\ RegexNew(param.pattern.v).ok
         /\ ValidApartFrom(manifest, n))
        => IF IsMatch(RegexNew(param.pattern.v), param.default)
           THEN results[i].kind = "Ok"
           ELSE /\ results[i].kind = "ValidationError"
                /\ results[i].field = "parameters." \o n \o ".default"

C2_Witness ==
    /\ Len(results) >= 1
    /\ results[1].kind = "ValidationError"
    /\ results[1].field = "parameters.project_name.default"
    /\ ParamKeys(manifest) = {"project_name", "db"}
    /\ ValidApartFrom(manifest, "project_name")

\* C3: a manifest valid in every other respect that declares an Enum
\* parameter is accepted iff the default is one of the choices.
C3_EnumDefaultMembership ==
    \A i \in 1..Len(results) : \A n \in ParamKeys(manifest) :
        LET param == manifest.schema.parameters.v[n] IN
        (param.type = "enum" /\ ValidApartFrom(manifest, n))
        => (results[i].kind = "Ok"
            <=> \E k \in 1..Len(param.choices) : param.choices[k] = param.default)

C3_Witness ==
    /\ Len(results) >= 1
    /\ results[1].kind = "ValidationError"
    /\ ParamKeys(manifest) = {"project_name", "db"}
    /\ ValidApartFrom(manifest, "db")
    /\ manifest.schema.parameters.v["db"].type = "enum"
    /\ Len(manifest.schema.parameters.v["db"].choices) > 0

\* C4: validating the same manifest content again gives the same result: the
\* same accept/reject answer, the same error field and the same message.
C4_Deterministic ==
    \A i, j \in 1..Len(results) : results[i] = results[j]

(***************************************************************************)
(* Rendering.                                                              *)
(***************************************************************************)
UnderGit(p) == ".git" \in Components(p)

\* the tree has a directory .git that holds files and subdirectories
HasGitDirectory(t) ==
    /\ ".git" \in DOMAIN t /\ t[".git"].dir
    /\ \E p \in Children(t, ".git") : t[p].dir
    /\ \E p \in Children(t, ".git") : ~t[p].dir

\* the extension of p, compared case-insensitively, is a binary one
BinaryExtension(p) ==
    \E x \in {"png", "jpg", "jpeg", "gif", "ico", "bin", "zip", "tar", "gz"} :
        Extension(p).some /\ ToLowercase(Extension(p).v) = x

\* file p of the tree can be rendered or copied with the values at hand
Renders(p) ==
    \/ BinaryExtension(p)
    \/ (tree[p].utf8 /\ render_content(tree[p].text, values).kind = "Ok")

\* C5: rendering a tree with a .git directory (holding files and
\* subdirectories) and x402.toml at the root succeeds and leaves no .git
\* component and no x402.toml in the destination, every other entry of the
\* source being there at the same relative path.
C5_GitAndManifestExcluded ==
    (/\ rstate = "done"
     /\ fault = None
     /\ HasGitDirectory(tree)
     /\ "x402.toml" \in DOMAIN tree
     /\ \A p \in DOMAIN tree :
            (~tree[p].dir /\ ~UnderGit(p) /\ p # "x402.toml") => Renders(p))
    => /\ rresult = Some(Ok)
       /\ \A p \in DOMAIN dest : ~UnderGit(p) /\ FileName(p) # "x402.toml"
       /\ \A p \in DOMAIN tree :
              (~UnderGit(p) /\ p # "x402.toml") => p \in DOMAIN dest

C7_ConditionalRendering ==
    \A p \in DOMAIN dest :
        (/\ ~dest[p].dir
         /\ tree[p].text = "{% if enable_docker %}Docker enabled{% endif %}"
         /\ "enable_docker" \in DOMAIN values)
        => /\ values["enable_docker"] = "true" => dest[p].text = "Docker enabled"
           /\ values["enable_docker"] = "false" => dest[p].text = ""

\* C8: '{{ name }}' with name in the value map renders as exactly the mapped
\* value, the text around it unchanged.
C8_Substitution ==
    \A p \in DOMAIN dest : \A n \in DOMAIN values :
        \A pre \in {"", "Project: ", "v="} : \A post \in {"", ";"} :
            (/\ ~dest[p].dir /\ ~BinaryExtension(p)
             /\ tree[p].text = pre \o "{{ " \o n \o " }}" \o post)
            => dest[p] = FileNode(TRUE, pre \o values[n] \o post)

C8_Witness ==
    /\ "README.md" \in DOMAIN dest
    /\ tree["README.md"].text = "Project: {{ project_name }}"
    /\ dest["README.md"].text = "Project: my-app"
    /\ ".gz" \in DOMAIN dest
    /\ dest[".gz"].text = "v=my-app;"

\* C9: a file whose '{{ name }}' names nothing in the value map is written
\* with empty content in its place and the render goes on without an error.
C9_AbsentNameRendersEmpty ==
    \A p \in DOMAIN tree :
        (/\ entry = Some(p)
         /\ ~tree[p].dir /\ tree[p].utf8
         /\ tree[p].text = "By {{ maintainer }}"
         /\ "maintainer" \notin DOMAIN values
         /\ fault # Some(p)
         /\ IsDir(dest, Parent(p)))
        => /\ rresult = None \/ rresult = Some(Ok)
           /\ p \in DOMAIN dest
           /\ dest[p] = FileNode(TRUE, "By ")

(***************************************************************************)
(* The create command.                                                     *)
(***************************************************************************)
BuiltInNames == {"project_name", "author", "version", "date"}

BuiltInValue(n) ==
    CASE n = "project_name" -> project_name.v
      [] n = "author" -> Realname
      [] n = "version" -> PkgVersion
      [] n = "date" -> Today

\* create has called Renderer::render with the value map
RenderInvoked == cstate \in {"rendering", "returned"} /\ rstate # "idle"

\* C10 as stated: in the value map handed to the renderer, project_name,
\* author, version and date always hold the built-in values, a manifest
\* parameter of one of these names never replacing them.
C10_BuiltInsNeverReplaced ==
    RenderInvoked =>
        \A n \in BuiltInNames : n \in DOMAIN values /\ values[n] = BuiltInValue(n)

\* C10 amended: in the value map handed to the renderer, each of the four
\* names is present; it holds the built-in value when the manifest declares
\* no parameter of that name, and the value collected for the manifest
\* parameter when it declares one.
C10_ManifestValueReplacesBuiltIn ==
    RenderInvoked =>
        \A n \in BuiltInNames :
            /\ n \in DOMAIN values
            /\ values[n] = IF n \in DOMAIN ParamsOf(validated.v)
                           THEN custom[n] ELSE BuiltInValue(n)

C10_Witness ==
    /\ RenderInvoked
    /\ DOMAIN ParamsOf(validated.v) = {"author", "version"}
    /\ custom["author"] = "my-app"
    /\ values["author"] = "my-app"
    /\ values["version"] = "1.0.0"
    /\ values["date"] = Today
    /\ values["project_name"] = project_name.v

\* C11: whenever create invokes Renderer::render, the key set of the value
\* map is exactly project_name, author, version, date and the names of the
\* parameters the manifest declares (the four alone when it declares none or
\* an empty table).
C11_ValueMapKeys ==
    RenderInvoked =>
        /\ BuiltInNames \subseteq DOMAIN values
        /\ DOMAIN values = BuiltInNames \cup DOMAIN ParamsOf(validated.v)
        /\ (~validated.v.parameters.some \/ validated.v.parameters.v = EmptyMap)
               => DOMAIN values = BuiltInNames

C11_Witness ==
    /\ RenderInvoked
    /\ validated.v.parameters.some
    /\ DOMAIN validated.v.parameters.v = {"project_name", "enable_docker", "db"}
    /\ DOMAIN values = {"project_name", "author", "version", "date", "enable_docker", "db"}

\* a render invoked for a manifest with an empty parameter table
C11_WitnessEmptyTable ==
    /\ RenderInvoked
    /\ validated.v.parameters = Some(EmptyMap)
    /\ DOMAIN values = BuiltInNames

\* the last step create took
LastStep == IF steps = <<>> THEN "" ELSE steps[Len(steps)]

\* how many parameter prompts were made
Prompts == Cardinality({i \in 1..Len(steps) : steps[i] = "prompt"})

\* C12: if the value source cancels while a manifest parameter is collected,
\* first, middle or last, no value map comes back (the collected values
\* never reach the parameters), create returns Cancelled, Renderer::render and
\* git initialization are never invoked and the destination is not created.
C12_CancelAborts ==
    cancelled =>
        /\ cstate = "returned"
        /\ cresult = Some(Cancelled)
        /\ LastStep = "prompt"
        /\ values = BuiltIns
        /\ rstate = "idle"
        /\ git = <<>>
        /\ dest = NoFs

\* cancelled at the last of three parameters
C12_Witness ==
    /\ cancelled
    /\ cresult = Some(Cancelled)
    /\ Prompts = 3
    /\ Len(pending) = 1
    /\ Cardinality(DOMAIN custom) = 2
    /\ dest = NoFs

\* cancelled at the first of three parameters
C12_WitnessFirst ==
    /\ cancelled
    /\ cresult = Some(Cancelled)
    /\ Prompts = 1
    /\ Len(pending) = 3

\* cancelled at the second of three parameters
C12_WitnessMiddle ==
    /\ cancelled
    /\ cresult = Some(Cancelled)
    /\ Prompts = 2
    /\ Len(pending) = 2

\* C13: every value prompt_for_parameters returns for a manifest parameter
\* satisfies the parameter's Parameter::validate: a String value matches the
\* declared pattern, a Boolean is 'true' or 'false', an Enum value is one of
\* the declared choices.
C13_CollectedValuesValid ==
    \A n \in DOMAIN custom :
        LET param == ParamsOf(validated.v)[n] IN
        /\ ParameterValidate(param, custom[n]).ok
        /\ param.type = "string" /\ param.pattern.some
               => IsMatch(RegexNew(param.pattern.v), custom[n])
        /\ param.type = "boolean" => custom[n] \in {"true", "false"}
        /\ param.type = "enum" => SeqContains(param.choices, custom[n])

C13_Witness ==
    /\ cstate = "collected"
    /\ DOMAIN custom = {"project_name", "enable_docker", "db"}
    /\ validated.v.parameters.v["project_name"].pattern = Some("^[a-z][a-z0-9-]*$")
    /\ custom["project_name"] = "my-app"
    /\ custom["enable_docker"] = "true"
    /\ custom["db"] = "postgres"

\* an I/O failure is in the way of the walk: a directory whose entries
\* cannot be read, or an entry of the loop whose directory cannot be created
\* or whose file cannot be written or copied
IoFailurePlanted ==
    \/ unlisted # None
    \/ (fault # None /\ filter(fault.v))

\* C14: any I/O failure met during Renderer::render (enumerating a source
\* entry, creating a directory, reading, writing or copying a file) makes
\* render return a FileSystemError or RenderError; render never returns Ok
\* after such a failure.
C14_IoFailureAborts ==
    (rstate = "done" /\ IoFailurePlanted)
    => rresult.v.kind \in {"FileSystemError", "RenderError"}

\* every entry of the destination sits at the relative path of the source
\* entry it came from, a directory for a directory and a file for a file
DestMirrorsSource ==
    \A p \in DOMAIN dest :
        /\ p \in DOMAIN tree
        /\ dest[p].dir = tree[p].dir
        /\ ~dest[p].dir =>
               IF BinaryExtension(p) THEN dest[p] = tree[p]
               ELSE dest[p] = FileNode(TRUE, render_content(tree[p].text, values).v)

\* C15: Renderer::render creates, modifies or deletes nothing under the
\* source root, whether it succeeds or fails, and every directory it creates
\* and file it writes is at the destination root joined with the relative
\* path of the source entry it came from.
C15_SourceUntouched ==
    /\ []DestMirrorsSource
    /\ [][tree' = tree]_vars

C15_Witness ==
    /\ rstate = "done"
    /\ rresult = Some(Ok)
    /\ DOMAIN dest = {"", "assets", "assets/logo.PNG", "README.md"}
    /\ DOMAIN tree = DOMAIN dest \cup {"x402.toml"}

\* a render that failed part-way, the source as it was
C15_WitnessFailed ==
    /\ rstate = "done"
    /\ rresult.v.kind = "RenderError"
    /\ "README.md" \in DOMAIN dest
    /\ "NOTES" \in DOMAIN tree

\* the place of a step in the order of create
StepRank(s) ==
    CASE s = "resolve" -> 1
      [] s = "name" -> 2
      [] s = "download" -> 3
      [] s = "validate" -> 4
      [] s = "prompt" -> 5
      [] s = "render" -> 6
      [] s = "git" -> 7

Took(s) == \E i \in 1..Len(steps) : steps[i] = s

\* C16: the steps of create occur in the order resolve, download, validate,
\* collect parameters, render, git initialization, each started only after
\* the one before succeeded: no prompt and no render for a manifest that
\* failed validation, no git initialization unless render returned Ok.
C16_StepOrder ==
    /\ \A i \in 1..Len(steps) : \A j \in 1..Len(steps) :
           i < j => \/ StepRank(steps[i]) < StepRank(steps[j])
                    \/ (steps[i] = "prompt" /\ steps[j] = "prompt")
    /\ \A i \in 2..Len(steps) :
           steps[i] # "prompt" =>
               \/ StepRank(steps[i - 1]) = StepRank(steps[i]) - 1
               \/ (steps[i] = "render" /\ steps[i - 1] = "validate")
    /\ Len(steps) > 0 => steps[1] = "resolve"
    /\ cresult # None => cstate = "returned"
    /\ (Took("prompt") \/ Took("render")) =>
           /\ manifest.readable /\ from_str(manifest).kind = "Ok"
           /\ validated = Some(manifest.schema)
           /\ SatisfiesChecks(manifest.schema)
    /\ Took("render") => pending = <<>> /\ ~cancelled
    /\ rstate # "idle" => Took("render")
    /\ Took("git") => rstate = "done" /\ rresult = Some(Ok)
    /\ git # <<>> => Took("git")

C16_Witness ==
    /\ steps = <<"resolve", "name", "download", "validate", "prompt", "prompt",
                 "render", "git">>
    /\ cresult = Some(Ok)
    /\ Len(git) = 3

\* C17: whenever create returns success, git init, git add and git commit
\* each ran and completed successfully; if one of them exits with a non-zero
\* status create does not report success.
C17_SuccessMeansGitInitialized ==
    (cstate = "returned" /\ cresult = Some(Ok))
    => /\ Len(git) = 3
       /\ \A i \in 1..Len(git) : git[i].status = "zero"

\* nothing after the project name step has taken place
NothingBeyondName ==
    /\ tree = NoFs
    /\ validated = None
    /\ custom = EmptyMap
    /\ rstate = "idle"
    /\ git = <<>>
    /\ ~Took("download") /\ ~Took("validate") /\ ~Took("prompt") /\ ~Took("render")
    /\ project_name # None =>
           /\ cstate = "returned"
           /\ cresult = Some(FileSystemError("Directory '" \o project_name.v
                                             \o "' already exists"))

\* C18: if a path with the project name exists when create is run, create
\* fails with FileSystemError before any download, validation, prompt or
\* render, and the existing path and what it holds are left as they were.
C18_ExistingPathRefused ==
    /\ (dest = ExistingDir) => [](dest = ExistingDir /\ NothingBeyondName)
    /\ (dest = ExistingFile) => [](dest = ExistingFile /\ NothingBeyondName)

C18_Witness ==
    /\ dest = ExistingDir
    /\ project_name = Some("my-app")
    /\ cresult = Some(FileSystemError("Directory 'my-app' already exists"))
    /\ steps = <<"resolve", "name">>

\* C19: after a create that failed once the destination had been created
\* (render failed part-way or git initialization failed), no destination
\* directory is left and the project name can be used again.
C19_FailedCreateLeavesNothing ==
    (cstate = "returned" /\ cresult.v.kind # "Ok" /\ Took("render"))
    => dest = NoFs /\ ~path_exists(dest)

(***************************************************************************)
(* Parameter::validate.                                                    *)
(***************************************************************************)
\* a and b are the same letter, in whatever case
SameLetter(a, b) ==
    \/ a = b
    \/ \E k \in 1..26 :
           /\ {a, b} = {Char("abcdefghijklmnopqrstuvwxyz", k),
                        Char("ABCDEFGHIJKLMNOPQRSTUVWXYZ", k)}

EqualsIgnoringCase(s, u) ==
    /\ Len(s) = Len(u)
    /\ \A i \in 1..Len(s) : SameLetter(Char(s, i), Char(u, i))

\* C20: Boolean Parameter::validate returns Ok for a value exactly when the
\* value is, letter case aside, one of true, false, yes, no, 1, 0; anything
\* else ('maybe', the empty string) is rejected, whatever the default.
C20_BooleanValidation ==
    \A i \in 1..Len(calls) :
        subject.v.type = "boolean" =>
            (calls[i].result.ok
                <=> \E token \in {"true", "false", "yes", "no", "1", "0"} :
                        EqualsIgnoringCase(calls[i].value, token))

C20_Witness ==
    /\ subject = Some(BooleanParam(FALSE))
    /\ Len(calls) = 2
    /\ calls[1].value = "Yes" /\ calls[1].result.ok
    /\ calls[2].value = "maybe" /\ ~calls[2].result.ok

\* C21: Enum Parameter::validate returns Ok for a value exactly when the
\* value equals, case-sensitively, an entry of choices; a value differing
\* from a choice only in letter case is rejected, whatever the default.
C21_EnumValidation ==
    \A i \in 1..Len(calls) :
        subject.v.type = "enum" =>
            /\ calls[i].result.ok
                   <=> \E k \in 1..Len(subject.v.choices) :
                           subject.v.choices[k] = calls[i].value
            /\ (/\ \E k \in 1..Len(subject.v.choices) :
                       EqualsIgnoringCase(subject.v.choices[k], calls[i].value)
                /\ \A k \in 1..Len(subject.v.choices) :
                       subject.v.choices[k] # calls[i].value)
               => ~calls[i].result.ok

C21_Witness ==
    /\ subject = Some(EnumParam(<<"postgres", "sqlite">>, "mysql"))
    /\ Len(calls) = 2
    /\ calls[1].value = "postgres" /\ calls[1].result.ok
    /\ calls[2].value = "Postgres" /\ ~calls[2].result.ok

\* C22: every failure of load_and_validate on a manifest that can be read
\* and is parseable text, a required field being absent included, is a
\* ValidationError that names the offending field.
C22_FailuresAreValidationErrors ==
    \A i \in 1..Len(results) :
        (manifest.readable /\ manifest.syntax_ok /\ results[i].kind # "Ok")
        => /\ results[i].kind = "ValidationError"
           /\ results[i].field # ""

(***************************************************************************)
(* The cache, as the commands that use it see it.                          *)
(***************************************************************************)
\* the cache file exists and holds a list with its timestamp
HoldsList(file) == file # None /\ file.v.readable /\ file.v.content # None

\* the age of the cache file at time `at`, in half hours
Age(file, at) == at - file.v.content.v.last_updated

\* the last command called Cache::load
Loaded == lastRun # None /\ lastRun.v.did.loaded # None

\* C23: Cache::load returns the cached list if and only if the cache file
\* exists and its age, now minus last_updated, is strictly less than the TTL;
\* a missing file, and a file as old as the TTL or older, yield None, so a
\* stale list is never returned.
C23_LoadReturnsFreshListOnly ==
    Loaded =>
        LET r == lastRun.v
            got == r.did.loaded.v
            fresh == HoldsList(r.before) /\ Age(r.before, r.at) < 2 * r.ttl
        IN  /\ (got.kind = "Ok" /\ got.value.some) <=> fresh
            /\ fresh => got.value.v = r.before.v.content.v.templates
            /\ r.before = None => got = OkValue(None)
            /\ HoldsList(r.before) /\ ~fresh => got = OkValue(None)

\* a load of a cache file that is exactly as old as the TTL, which is stale
C23_Witness ==
    /\ Loaded
    /\ lastRun.v.op = "load"
    /\ HoldsList(lastRun.v.before)
    /\ Age(lastRun.v.before, lastRun.v.at) = 2 * lastRun.v.ttl
    /\ lastRun.v.did.loaded.v = OkValue(None)

\* a load of a cache file one half hour younger than the TTL, which is fresh
C23_WitnessFresh ==
    /\ Loaded
    /\ lastRun.v.op = "load"
    /\ HoldsList(lastRun.v.before)
    /\ Age(lastRun.v.before, lastRun.v.at) = 2 * lastRun.v.ttl - 1
    /\ lastRun.v.did.loaded.v.kind = "Ok"
    /\ lastRun.v.did.loaded.v.value.some

\* the last command was list, or the template lookup of create
Ran(op) == lastRun # None /\ lastRun.v.op = op

\* Cache::new failed, so the command ended before it used the cache
NoCacheDirectory(r) ==
    r.did.result = CacheError("Cannot create cache directory")

\* GitHub was asked and answered with a list
Fetched(r) == r.did.requested /\ r.answer.v.kind = "Ok"

C24_WitnessUnreadable ==
    /\ Ran("list")
    /\ lastRun.v.refresh
    /\ lastRun.v.before = StoredFile(FALSE, None)
    /\ Fetched(lastRun.v)
    /\ lastRun.v.shown = Some(lastRun.v.answer.v.templates)

\* the last command looked the templates up without --refresh and had its
\* cache directory
LookedUp ==
    /\ lastRun # None
    /\ lastRun.v.op \in {"list", "fetch_templates"}
    /\ ~lastRun.v.refresh
    /\ ~NoCacheDirectory(lastRun.v)

\* the cache file the command found was fresh under the default TTL of one hour
FoundFresh(r) == HoldsList(r.before) /\ Age(r.before, r.at) < 2

\* C28: without --refresh, list and the template lookup of create ask
\* GitHub only when Cache::load returned None, which it does when the cache
\* file is missing or stale; when the cache file is fresh the cached list is
\* what the command uses and GitHub is not asked; and after every successful
\* fetch Cache::save is called with the fetched list before the list is
\* returned.
C28_GitHubOnlyOnCacheMiss ==
    LookedUp =>
        LET r == lastRun.v IN
        /\ r.did.requested => r.did.loaded = Some(OkValue(None))
        /\ r.before = None \/ (HoldsList(r.before) /\ ~FoundFresh(r)) => r.did.requested
        /\ FoundFresh(r) =>
               /\ ~r.did.requested
               /\ r.did.result = OkTemplates(r.before.v.content.v.templates)
               /\ r.did.saved = None
        /\ Fetched(r) =>
               /\ r.did.saved # None
               /\ r.did.given = Some(r.answer.v.templates)
               /\ r.did.result = r.answer.v

\* the template lookup of create finds the list that a list command fetched
\* and saved less than an hour earlier
C28_Witness ==
    /\ LookedUp
    /\ runs = 2
    /\ lastRun.v.op = "fetch_templates"
    /\ FoundFresh(lastRun.v)
    /\ Age(lastRun.v.before, lastRun.v.at) = 1
    /\ Len(lastRun.v.before.v.content.v.templates) = 2
    /\ ~lastRun.v.did.requested

\* list finds a cache file one hour old and fetches
C28_WitnessStale ==
    /\ LookedUp
    /\ lastRun.v.op = "list"
    /\ HoldsList(lastRun.v.before)
    /\ Age(lastRun.v.before, lastRun.v.at) = 2
    /\ Fetched(lastRun.v)
    /\ lastRun.v.did.saved # None

\* C29: a failure to write the cache after a successful fetch is not fatal,
\* list and fetch_templates still return the fetched templates; a failed
\* fetch makes the command fail and leaves the cache file as it was.
C29_SaveFailureTolerated ==
    lastRun # None /\ lastRun.v.did.requested =>
        LET r == lastRun.v IN
        /\ Fetched(r) /\ r.did.saved # Some(OkUnit) =>
               /\ r.did.saved.v.kind = "CacheError"
               /\ r.did.result = OkTemplates(r.answer.v.templates)
               /\ r.op = "list" => r.shown = Some(Display(r.answer.v.templates, r.tags))
        /\ ~Fetched(r) =>
               /\ r.did.result = r.answer.v
               /\ r.did.result.kind = "GitHubApiError"
               /\ r.did.saved = None
               /\ cacheFile = r.before

\* list fetched a list of two, the write of the cache file failed and the
\* two templates are shown all the same
C29_Witness ==
    /\ Ran("list")
    /\ Fetched(lastRun.v)
    /\ lastRun.v.did.saved = Some(CacheError("Cannot write cache"))
    /\ lastRun.v.did.result.kind = "Ok"
    /\ lastRun.v.shown # None
    /\ Len(lastRun.v.shown.v) = 2

\* fetch_templates over a stale cache file: GitHub fails, the file stays
C29_WitnessFetchFailed ==
    /\ Ran("fetch_templates")
    /\ lastRun.v.did.requested
    /\ ~Fetched(lastRun.v)
    /\ HoldsList(lastRun.v.before)
    /\ cacheFile = lastRun.v.before

\* the manifest file is readable, parses, and is valid in every respect other
\* than the length of its description
ValidApartFromDescription(file) ==
    /\ file.readable
    /\ from_str(file).kind = "Ok"
    /\ SatisfiesChecks([file.schema EXCEPT !.template.description = "ten chars."])

\* C25: a manifest valid in every other respect is accepted if and only if
\* the length L of its description satisfies 10 <= L <= 200; 10 and 200 are
\* accepted, 0..9 and 201 or more are rejected with a ValidationError on the
\* description field.
C25_DescriptionLengthBounds ==
    ValidApartFromDescription(manifest) =>
        LET L == Len(manifest.schema.template.description) IN
        \A i \in 1..Len(results) :
            /\ results[i].kind = "Ok" <=> (10 <= L /\ L <= 200)
            /\ results[i].kind # "Ok" =>
                   /\ results[i].kind = "ValidationError"
                   /\ results[i].field = "template.description"

\* a description of exactly 200 characters is accepted
C25_Witness ==
    /\ ValidApartFromDescription(manifest)
    /\ Len(manifest.schema.template.description) = 200
    /\ Len(results) >= 1
    /\ results[1].kind = "Ok"

\* a description of exactly 10 characters is accepted
C25_WitnessTen ==
    /\ ValidApartFromDescription(manifest)
    /\ Len(manifest.schema.template.description) = 10
    /\ Len(results) >= 1
    /\ results[1].kind = "Ok"

\* a description of 9 characters is rejected
C25_WitnessNine ==
    /\ ValidApartFromDescription(manifest)
    /\ Len(manifest.schema.template.description) = 9
    /\ Len(results) >= 1
    /\ results[1].kind = "ValidationError"

\* a description of 201 characters is rejected
C25_WitnessOver ==
    /\ ValidApartFromDescription(manifest)
    /\ Len(manifest.schema.template.description) = 201
    /\ Len(results) >= 1
    /\ results[1].kind = "ValidationError"

\* the places in the documented order of the checks that schema fails
FailingChecks(schema) ==
    LET meta == schema.template IN
    {k \in 1..9 :
        CASE k = 1 -> Len(meta.name) < 1 \/ Len(meta.name) > 100
          [] k = 2 -> Len(meta.description) < 10 \/ Len(meta.description) > 200
          [] k = 3 -> ~VersionParse(meta.version)
          [] k = 4 -> Len(meta.authors) < 1
          [] k = 5 -> ~StartsWith(meta.repository, "https://github.com/")
          [] k = 6 -> meta.min_rust_version.some
                      /\ ~VersionParse(meta.min_rust_version.v)
          [] k = 7 -> meta.min_x402_cli_version.some
                      /\ ~VersionParse(meta.min_x402_cli_version.v)
          [] k = 8 -> schema.parameters.some
                      /\ \E n \in DOMAIN schema.parameters.v :
                             ~ParameterWellFormed(schema.parameters.v[n])
          [] k = 9 -> schema.files.some
                      /\ \E i \in 1..Len(schema.files.v.include \o schema.files.v.exclude) :
                             (schema.files.v.include \o schema.files.v.exclude)[i] = ""}

\* the place in that order of the check that reports on field
CheckOf(field) ==
    CASE field = "template.name" -> 1
      [] field = "template.description" -> 2
      [] field = "template.version" -> 3
      [] field = "template.authors" -> 4
      [] field = "template.repository" -> 5
      [] field = "template.min_rust_version" -> 6
      [] field = "template.min_x402_cli_version" -> 7
      [] StartsWith(field, "parameters.") -> 8
      [] StartsWith(field, "files.") -> 9
      [] OTHER -> 0

\* C26: validate_schema reports one error per call, that of the first
\* failing check in the order name, description, version, authors,
\* repository, min_rust_version, min_x402_cli_version, parameters, file
\* rules; when a manifest fails several checks, none later in the order is
\* reported.
C26_FirstFailingCheckReported ==
    manifest.readable /\ from_str(manifest).kind = "Ok" =>
        LET failing == FailingChecks(manifest.schema) IN
        \A i \in 1..Len(results) :
            /\ results[i].kind = "Ok" <=> failing = {}
            /\ failing # {} =>
                   /\ results[i].kind = "ValidationError"
                   /\ CheckOf(results[i].field) \in failing
                   /\ \A k \in failing : CheckOf(results[i].field) <= k

\* an empty name together with a repository that is no HTTPS GitHub URL: the
\* name is reported
C26_Witness ==
    /\ manifest.readable
    /\ from_str(manifest).kind = "Ok"
    /\ FailingChecks(manifest.schema) = {1, 5}
    /\ Len(results) >= 1
    /\ results[1].kind = "ValidationError"
    /\ results[1].field = "template.name"

\* an ill-formed parameter together with an empty exclude pattern: the
\* parameter is reported
C26_WitnessLate ==
    /\ manifest.readable
    /\ from_str(manifest).kind = "Ok"
    /\ FailingChecks(manifest.schema) = {8, 9}
    /\ Len(results) >= 1
    /\ CheckOf(results[1].field) = 8

\* render_file got as far as its copy or write of the entry: the entry was
\* rendered, or the copy or write itself failed
ReachedWrite ==
    \/ rstate = "walking"
    \/ rstate = "done" /\ rresult.v.kind = "FileSystemError"

\* C27: whenever render writes or copies a file to its destination path, the
\* destination directory that is to contain it was created earlier in the
\* same call; for every source tree and every order of enumeration, files
\* below an excluded .git directory included.
C27_DirectoryCreatedBeforeWrite ==
    [][(/\ rstate = "walking"
        /\ entry' # entry
        /\ ~tree[entry'.v].dir
        /\ ReachedWrite')
       => IsDir(dest, Parent(entry'.v))]_vars

\* what does hold: in a tree without a .git directory every copy and write
\* goes to a directory that an earlier iteration created
C27_OrderedWithoutGit ==
    [][(/\ ~HasGitDirectory(tree)
        /\ rstate = "walking"
        /\ entry' # entry
        /\ ~tree[entry'.v].dir
        /\ ReachedWrite')
       => IsDir(dest, Parent(entry'.v))]_vars

\* the render of create has returned Ok, and git init has not run yet
Rendered == cstate = "rendering" /\ rstate = "done" /\ rresult = Some(Ok)

C30_WitnessDirectory ==
    /\ Rendered
    /\ validated.v.files.some
    /\ validated.v.files.v.exclude = <<"Dockerfile", "assets", "assets/**">>
    /\ "assets/logo.PNG" \in DOMAIN dest

====
